---- MODULE Spec2Model ----
(***************************************************************************)
(* Model of the soundspan sidecar services.                                *)
(*                                                                         *)
(*   Spec       the feature-extraction worker (audio-analyzer/analyzer.py):*)
(*              the Track table, the track_embeddings table, the Redis     *)
(*              analysis queue, the batch in flight and the process pool.  *)
(*              Database and queue calls succeed.                          *)
(*   FairSpec   Spec under the scheduling of the worker's loop.            *)
(*   SpecText   the text-embed responder (audio-analyzer-clap/analyzer.py):*)
(*              the request stream, its consumer group, the consumers and  *)
(*              the response lists.  Redis calls succeed.                  *)
(*   FairText   SpecText under the scheduling of the consumers' loops.     *)
(*   SpecProxy  the byte-range proxies of the TIDAL and YouTube Music      *)
(*              sidecars and their stream-URL caches.                      *)
(*   SpecControl  the feature worker's control channel: pause, resume,     *)
(*              stop and the debounced resize of the worker pool.          *)
(*   FairControl  SpecControl with a loop that keeps iterating and a clock *)
(*              that keeps ticking.                                        *)
(*   SpecSession  the per-user sessions of the TIDAL sidecar               *)
(*              (tidal-downloader/app.py): handles, credentials, the       *)
(*              per-user lock, token refresh and the stream-URL cache.     *)
(*   SpecCache  the stream-URL caches of the two sidecars, with time.      *)
(*   SpecExtract  the paced yt-dlp extraction of the YouTube Music sidecar *)
(*              (ytmusic-streamer/app.py), run by worker threads.          *)
(*   SpecSearch  the batch search of the YouTube Music sidecar and its     *)
(*              semaphore.                                                 *)
(*   SpecEnv    the integer environment settings of the CLAP service       *)
(*              (audio-analyzer-clap/analyzer.py) and the thread limits    *)
(*              the analyzers export.                                      *)
(*   SpecJob    one feature-extraction job (audio-analyzer/analyzer.py):   *)
(*              the file, its loading and validation, the Track row and    *)
(*              the EnrichmentFailure row.                                 *)
(*   SpecPause  the feature worker's loop step by step, with pause,        *)
(*              resume and stop on the control channel.                    *)
(*   FairPause  SpecPause with a loop that keeps iterating.                *)
(*   SpecFaults the feature worker's loop with a database and a queue that *)
(*              may be unreachable and a pool that may break while idle.   *)
(*   SpecReset  the text-embed responder with a Redis server that may be   *)
(*              reset: stream, group and response keys are lost.           *)
(*   FairReset  SpecReset under the scheduling of the consumers' loops.    *)
(*   SpecRedis  SpecReset with Redis calls that may raise.                 *)
(*   SpecEmbed  the embedding worker of the CLAP service: its database     *)
(*              connection, its queue and the vibe status of the tracks.   *)
(*   SpecMode   the search strategy of the YouTube Music sidecar: the      *)
(*              per-user fallback mark, the clients and the auth routes.   *)
(*   SpecIdle   the CLAP model in memory: the threads that encode and the  *)
(*              idle monitor that unloads.                                 *)
(*                                                                         *)
(* The specifications share their variables; each one moves its own part   *)
(* of the state and leaves the rest as it starts.                          *)
(***************************************************************************)
EXTENDS Integers, Sequences, FiniteSets, TLC

\* ------------------------------------------------------------------ bounds
NumTracks == 2          \* rows of the Track table
MaxCrashes == 1         \* deaths of the worker process a behaviour holds

\* ------------------------------------------------------- program constants
BATCH_SIZE == 2         \* env BATCH_SIZE (default 10)
MAX_RETRIES == 2        \* env MAX_RETRIES (default 3)

Tracks == 1..NumTracks

\* bounds of the text-embed responder
NumConsumers == 2        \* TextEmbedHandler instances in the consumer group
MaxEntries == 2          \* entries added to the request stream
MaxConsumerCrashes == 1  \* consumers that die
\* program constant
TEXT_EMBED_CLAIM_BATCH == 2   \* env TEXT_EMBED_CLAIM_BATCH (default 10)

Consumers == 1..NumConsumers
Entries == 1..MaxEntries

\* bound of the control channel
MaxUnread == 2                 \* control messages published and not yet read
\* program constants
RESIZE_DEBOUNCE_SECONDS == 5   \* seconds; the clock of the model ticks in seconds
DEFAULT_WORKERS == 2
RequestedCounts == {0, 2, 9}   \* the counts a set_workers message may carry

\* bounds of the TIDAL user sessions
NumUsers == 2        \* users with a session
NumResources == 2    \* track ids / video ids requested
NumCalls == 2        \* concurrent calls of _run_user_api_call
MaxTokens == 2       \* access tokens the provider issues
\* program constant
STREAM_CACHE_TTL == 2      \* tidal STREAM_CACHE_TTL, in units of 300 seconds
YT_STREAM_CACHE_TTL == 3   \* ytmusic STREAM_CACHE_TTL, in the model's units
EXTRACT_DELAY_MIN == 1     \* ytmusic EXTRACT_DELAY_MIN, in the model's units
EXTRACT_DELAY_MAX == 2     \* ytmusic EXTRACT_DELAY_MAX, in the model's units
\* bounds of the stream-URL caches and of the extractor
NumThreads == 2            \* worker threads of asyncio.to_thread
MaxNow == 3                \* the clock stops here

Users == 1..NumUsers
Resources == 1..NumResources
Calls == 1..NumCalls
Tokens == 1..MaxTokens

\* bounds of the batch search
NumTasks == 4        \* _run_one tasks alive at a time, over all batch requests
NumQueries == 2      \* distinct search queries
\* program constant
BATCH_CONCURRENCY == 3   \* env YTMUSIC_BATCH_CONCURRENCY (default 3)

Tasks == 1..NumTasks
Queries == 1..NumQueries

\* bounds of the analyzer environment
MaxLen == 3          \* characters of an environment value set from outside
Chars == {"1", "2", "-", "_", " ", "a"}
Defaults == {3, 11, -1}          \* default arguments of get_int_env
ThreadCounts == {1, 2, 12}       \* threads_per_worker arguments

\* bounds of the analysis job
NumFrames == 10      \* frames validate_audio measures the silence of
MaxFlaws == 2        \* ways a file differs from a sound one

\* Durations of the audio loaded, in hundredths of a second.
Durations == {200, 496, 500}

\* bound of the worker's loop under faults
MaxFaults == 2       \* infrastructure errors and pool breakages a behaviour holds

\* bounds of the text-embed responder under Redis failures
MaxResets == 1       \* resets of the Redis server a behaviour holds
MaxRedisErrors == 2  \* Redis calls that raise in a behaviour

\* bounds of the embedding worker
MaxOutages == 2      \* times the database goes down in a behaviour

\* bounds of the CLAP model's idle monitor
NumEmbedders == 2          \* threads that call the CLAP analyzer
MaxWall == 3               \* the wall clock of the CLAP service stops here
\* program constants
MODEL_IDLE_TIMEOUT == 2    \* env MODEL_IDLE_TIMEOUT (default 300), in the model's units
SLEEP_INTERVAL_TWICE == 1  \* SLEEP_INTERVAL * 2, in the model's units

Embedders == 1..NumEmbedders

\* the streaming sidecars and the qualities a proxy request may ask for
Sidecars == {"tidal", "ytmusic"}
Qualities == {"HIGH", "LOSSLESS"}

VARIABLES
  Track,            \* the Track table: id -> row (analysis columns)
  track_embeddings, \* ids with a row in track_embeddings
  queue,            \* the Redis list audio:analysis:queue, left end first
  pc,               \* where AnalysisWorker.start's loop stands
  tracks,           \* the batch being processed (after the status guard)
  futures,          \* per batch entry: the state of its future
  crashes,          \* deaths of the worker process so far
  executor,         \* "none" or "live": the ProcessPoolExecutor handle
  pool_active,      \* AnalysisWorker.pool_active
  lastOp,           \* history: the operation that produced this state
  stream,           \* audio:text:embed:requests: the entries, by id
  last_delivered,   \* the consumer group's last-delivered id
  pel,              \* the group's pending entries: id -> owner and idleness
  responses,        \* per request: the payloads pushed to its response key
  acked,            \* history: the entries an XACK removed from the group
  consumer,         \* per consumer: "live" or "dead"
  work,             \* per consumer: the entries read or claimed, to handle
  orphaned,         \* history: the entries whose reader died before the ack
  stream_cache,     \* per sidecar: _stream_cache, cache key -> entry or none
  request,          \* the byte-range proxy request being served, or idle
  NUM_WORKERS,      \* the module global NUM_WORKERS: the effective worker count
  pending_resize,   \* AnalysisWorker._pending_resize, 0 for None
  pending_elapsed,  \* time.time() - _pending_resize_time, capped at the debounce
  is_paused,        \* AnalysisWorker.is_paused
  running,          \* AnalysisWorker.running
  pubsub,           \* the control messages published and not yet read
  since_set_workers, \* history: time since the last set_workers was published, capped
  last_requested,   \* history: clamp of the last set_workers count published, 0 for none
  user_apis,        \* tidal _user_apis: user -> the access token of its handle, 0 for none
  user_auth_state,  \* tidal _user_auth_state: user -> the credentials stored
  user_api_locks,   \* tidal _user_api_locks: user -> the call holding the lock, 0
  tidal_stream_cache, \* tidal _stream_cache: (user, track, quality) -> entry
  now,              \* time.time()
  expired,          \* the access tokens the provider has expired
  next_token,       \* the next access token the provider issues
  token_user,       \* access token -> the user it was issued to, 0 if not issued
  calls,            \* per call of _run_user_api_call: its inputs, position, locals
  refresh_calls,    \* history: per user, the refresh_token calls of _refresh_user_api
  invalidated,      \* history: the user the last step invalidated, 0 if none
  ytmusic_stream_cache, \* ytmusic _stream_cache: "user:video" -> entry
  returned,         \* history: the last stream lookup and what it gave its caller
  last_extract_time, \* ytmusic _last_extract_time
  threads,          \* per worker thread running ytmusic _get_stream_url_sync: position, locals
  batch_semaphore,  \* ytmusic _batch_semaphore: its free slots
  search_cache,     \* ytmusic _search_cache: the queries with a live entry
  tasks,            \* per _run_one task of search_batch: position and query
  released_by,      \* history: the outcomes that have released a slot
  environ,          \* os.environ of an analyzer process: name -> string
  env_call,         \* history: the last call of analyzer_env and its result
  job,              \* one analysis job: its file, its position, what the child returned
  job_row,          \* the job's Track row, with analysisError
  failure,          \* the track's EnrichmentFailure row, or none
  faults,           \* infrastructure errors and pool breakages so far
  stranded,         \* history: tracks a failed operation left in processing
  group,            \* the consumer group exists on the request stream
  resets,           \* resets of the Redis server so far
  expire,           \* the response keys that carry a TTL
  redis_errors,     \* Redis calls that raised so far
  fallback,         \* history: entries answered by the fallback pipeline
  db_up,            \* PostgreSQL is reachable
  conn,             \* DatabaseConnection.conn of the embedding worker: "open" or "none"
  worker_loop,      \* Worker.start: "running", "reconnecting" or "ended"
  clap_queue,       \* the embedding jobs in the Redis list
  vibe,             \* vibeAnalysisStatus and vibeAnalysisRetryCount of each track
  held,             \* the track of the job in hand, 0 for none
  outages,          \* times the database went down
  auto_tv_fallback_users, \* ytmusic _ytmusic_auto_tv_fallback_users
  ytmusic_instances, \* ytmusic _ytmusic_instances: the client context per user, or "none"
  oauth_files,      \* the users with an OAuth file on disk
  searched,         \* the last route that ran: its user, the first answer, the upstream calls, the result
  model_handle,     \* CLAPAnalyzer.model is not None
  model_loaded,     \* CLAPAnalyzer._model_loaded
  last_work_time,   \* CLAPAnalyzer.last_work_time
  wall,             \* time.time() of the CLAP service
  embedders,        \* the threads that call the analyzer: position, kind of embedding, outcome
  idle_monitor      \* the idle monitor of main: position and the idle time it read

workerVars == <<Track, track_embeddings, queue, pc, tracks, futures,
                executor, pool_active, crashes, lastOp>>
textVars == <<stream, last_delivered, pel, responses, acked, consumer, work,
              orphaned>>
proxyVars == <<stream_cache, request>>
controlVars == <<NUM_WORKERS, pending_resize, pending_elapsed, is_paused,
                 running, pubsub, since_set_workers, last_requested>>
sessionVars == <<user_apis, user_auth_state, user_api_locks,
                 tidal_stream_cache, now, expired, next_token, token_user,
                 calls, refresh_calls, invalidated>>
cacheVars == <<ytmusic_stream_cache, returned>>
extractVars == <<last_extract_time, threads>>
searchVars == <<batch_semaphore, search_cache, tasks, released_by>>
envVars == <<environ, env_call>>
jobVars == <<job, job_row, failure>>
faultVars == <<faults, stranded>>
redisVars == <<group, resets, expire, redis_errors, fallback>>
embedVars == <<db_up, conn, worker_loop, clap_queue, vibe, held, outages>>
modeVars == <<auto_tv_fallback_users, ytmusic_instances, oauth_files, searched>>
idleVars == <<model_handle, model_loaded, last_work_time, wall, embedders, idle_monitor>>
vars == <<workerVars, textVars, proxyVars, controlVars, sessionVars,
          cacheVars, extractVars, searchVars, envVars, jobVars, faultVars,
          redisVars, embedVars, modeVars, idleVars>>
notWorker == <<textVars, proxyVars, controlVars, sessionVars, cacheVars,
               extractVars, searchVars, envVars, jobVars, faultVars,
               redisVars, embedVars, modeVars, idleVars>>
notText == <<workerVars, proxyVars, controlVars, sessionVars, cacheVars,
             extractVars, searchVars, envVars, jobVars, faultVars, redisVars,
             embedVars, modeVars, idleVars>>
notProxy == <<workerVars, textVars, controlVars, sessionVars, cacheVars,
              extractVars, searchVars, envVars, jobVars, faultVars,
              redisVars, embedVars, modeVars, idleVars>>
notControl == <<workerVars, textVars, proxyVars, sessionVars, cacheVars,
                extractVars, searchVars, envVars, jobVars, faultVars,
                redisVars, embedVars, modeVars, idleVars>>
notSession == <<workerVars, textVars, proxyVars, controlVars, cacheVars,
                extractVars, searchVars, envVars, jobVars, faultVars,
                redisVars, embedVars, modeVars, idleVars>>
notCache == <<workerVars, textVars, proxyVars, controlVars, sessionVars,
              extractVars, searchVars, envVars, jobVars, faultVars,
              redisVars, embedVars, modeVars, idleVars>>
notExtract == <<workerVars, textVars, proxyVars, controlVars, sessionVars,
                cacheVars, searchVars, envVars, jobVars, faultVars,
                redisVars, embedVars, modeVars, idleVars>>
notSearch == <<workerVars, textVars, proxyVars, controlVars, sessionVars,
               cacheVars, extractVars, envVars, jobVars, faultVars,
               redisVars, embedVars, modeVars, idleVars>>
notEnv == <<workerVars, textVars, proxyVars, controlVars, sessionVars,
            cacheVars, extractVars, searchVars, jobVars, faultVars,
            redisVars, embedVars, modeVars, idleVars>>
notJob == <<workerVars, textVars, proxyVars, controlVars, sessionVars,
            cacheVars, extractVars, searchVars, envVars, faultVars,
            redisVars, embedVars, modeVars, idleVars>>
notFault == <<workerVars, textVars, proxyVars, controlVars, sessionVars,
              cacheVars, extractVars, searchVars, envVars, jobVars,
              redisVars, embedVars, modeVars, idleVars>>
notRedis == <<workerVars, textVars, proxyVars, controlVars, sessionVars,
              cacheVars, extractVars, searchVars, envVars, jobVars,
              faultVars, embedVars, modeVars, idleVars>>
notEmbed == <<workerVars, textVars, proxyVars, controlVars, sessionVars,
              cacheVars, extractVars, searchVars, envVars, jobVars,
              faultVars, redisVars, modeVars, idleVars>>
notMode == <<workerVars, textVars, proxyVars, controlVars, sessionVars,
             cacheVars, extractVars, searchVars, envVars, jobVars, faultVars,
             redisVars, embedVars, idleVars>>
notIdle == <<workerVars, textVars, proxyVars, controlVars, sessionVars,
             cacheVars, extractVars, searchVars, envVars, jobVars, faultVars,
             redisVars, embedVars, modeVars>>

\* the groups outside the stream lookups, and outside the worker and its
\* control channel
outsideStreams == <<workerVars, textVars, proxyVars, controlVars, searchVars,
                    envVars, jobVars, faultVars,
                    redisVars,
                    embedVars,
                    modeVars,
                    idleVars>>
outsideWorkerControl == <<textVars, proxyVars, sessionVars, cacheVars,
                          extractVars, searchVars, envVars, jobVars,
                          faultVars,
                          redisVars,
                          embedVars,
                          modeVars,
                          idleVars>>

dbVars == <<Track, track_embeddings>>
batchVars == <<tracks, futures>>
poolVars == <<executor, pool_active>>

\* ------------------------------------------------------------ small helpers
Min(a, b) == IF a < b THEN a ELSE b

MaxOf(S) == CHOOSE m \in S : \A x \in S : x <= m

Range(s) == {s[i] : i \in DOMAIN s}

\* The id set a sequence of jobs names.
RECURSIVE SelectIn(_, _)
SelectIn(s, S) ==
  IF s = <<>> THEN <<>>
  ELSE IF Head(s) \in S THEN <<Head(s)>> \o SelectIn(Tail(s), S)
       ELSE SelectIn(Tail(s), S)

\* ORDER BY "fileModified" DESC LIMIT n over a set of ids: a track with a
\* larger id was modified later.
RECURSIVE OrderDescLimit(_, _)
OrderDescLimit(S, n) ==
  IF S = {} \/ n = 0 THEN <<>>
  ELSE LET m == MaxOf(S) IN <<m>> \o OrderDescLimit(S \ {m}, n - 1)

\* ------------------------------------------------------------ the Track row
NewRow == [status |-> "pending", retryCount |-> 0,
           startedAt |-> "null", updatedAt |-> "fresh"]

\* startedAt / updatedAt older than STALE_PROCESSING_MINUTES.
IsStale(r) ==
  \/ r.startedAt = "stale"
  \/ r.startedAt = "null" /\ r.updatedAt = "stale"

\* ------------------------------------------------------- database operations
\* _cleanup_stale_processing: stale processing rows with an embedding become
\* completed; stale processing rows without one and under budget go back to
\* pending with retryCount + 1.
cleanup_stale_processing(T, E) ==
  [t \in Tracks |->
    IF T[t].status = "processing" /\ IsStale(T[t]) /\ t \in E
      THEN [T[t] EXCEPT !.status = "completed", !.startedAt = "null",
                        !.updatedAt = "fresh"]
    ELSE IF /\ T[t].status = "processing" /\ IsStale(T[t])
            /\ T[t].retryCount < MAX_RETRIES /\ t \notin E
      THEN [T[t] EXCEPT !.status = "pending", !.startedAt = "null",
                        !.retryCount = @ + 1, !.updatedAt = "fresh"]
    ELSE T[t]]

\* _retry_failed_tracks: failed rows with an embedding become completed;
\* failed rows without one and under budget become pending.
retry_failed_tracks(T, E) ==
  [t \in Tracks |->
    IF T[t].status = "failed" /\ t \in E
      THEN [T[t] EXCEPT !.status = "completed", !.startedAt = "null",
                        !.updatedAt = "fresh"]
    ELSE IF T[t].status = "failed" /\ T[t].retryCount < MAX_RETRIES /\ t \notin E
      THEN [T[t] EXCEPT !.status = "pending", !.updatedAt = "fresh"]
    ELSE T[t]]

\* _run_db_reconciliation, the SELECT: pending rows under budget.
reconciliation_select(T) ==
  OrderDescLimit({t \in Tracks : T[t].status = "pending"
                                 /\ T[t].retryCount < MAX_RETRIES}, BATCH_SIZE)

\* _run_db_reconciliation, the UPDATE: the selected rows become processing.
reconciliation_mark(T) ==
  LET ids == Range(reconciliation_select(T)) IN
  [t \in Tracks |->
    IF t \in ids /\ T[t].status = "pending"
      THEN [T[t] EXCEPT !.status = "processing", !.startedAt = "fresh",
                        !.updatedAt = "fresh"]
    ELSE T[t]]

\* _run_db_reconciliation, the pipeline of rpush: the marked rows' jobs.
reconciliation_push(T, q) == q \o reconciliation_select(T)

\* _save_failed: the UPDATE of the Track row.
save_failed(T, t, permanent) ==
  [T EXCEPT ![t] = [@ EXCEPT !.status = "failed",
                             !.retryCount = IF permanent THEN MAX_RETRIES ELSE @ + 1,
                             !.startedAt = "null", !.updatedAt = "fresh"]]

\* _save_results: the UPDATE of the Track row.
save_results(T, t) ==
  [T EXCEPT ![t] = [@ EXCEPT !.status = "completed", !.startedAt = "null",
                             !.updatedAt = "fresh"]]

\* _process_tracks_parallel, the status guard: rows pending or processing.
valid_ids(T, jobs) ==
  {t \in Range(jobs) : T[t].status \in {"pending", "processing"}}

mark_processing(T, jobs) ==
  [t \in Tracks |->
    IF t \in valid_ids(T, jobs)
      THEN [T[t] EXCEPT !.status = "processing",
                        !.startedAt = IF @ = "null" THEN "fresh" ELSE @,
                        !.updatedAt = "fresh"]
    ELSE T[t]]

\* _requeue_tracks_for_retry: rows of `remaining` still processing go back to
\* pending, startedAt cleared, retryCount untouched.
requeue_eligible(T, remaining) ==
  {t \in Range(remaining) : T[t].status = "processing"}

\* requeue_reset, but charging the retry budget as the stale reset does.
requeue_reset_charging(T, remaining) ==
  [t \in Tracks |->
    IF t \in requeue_eligible(T, remaining)
      THEN [T[t] EXCEPT !.status = "pending", !.startedAt = "null",
                        !.retryCount = @ + 1, !.updatedAt = "fresh"]
    ELSE T[t]]

requeue_reset(T, remaining) ==
  [t \in Tracks |->
    IF t \in requeue_eligible(T, remaining)
      THEN [T[t] EXCEPT !.status = "pending", !.startedAt = "null",
                        !.updatedAt = "fresh"]
    ELSE T[t]]

requeue_push(T, remaining, q) == q \o SelectIn(remaining, requeue_eligible(T, remaining))

\* ---------------------------------------------------------------- the pool
\* _ensure_pool / _recreate_pool leave a live executor and pool_active set.
ensure_pool_executor(ex, active) == "live"

shutdown_pool_executor(ex, active) ==
  IF ~active \/ ex = "none" THEN ex ELSE "none"

shutdown_pool_active(ex, active) ==
  IF ~active \/ ex = "none" THEN active ELSE FALSE

\* finalized_track_ids: the ids whose outcome this batch has saved.
finalized_track_ids == {tracks[i] : i \in {j \in DOMAIN futures : futures[j] = "collected"}}

\* The periodic maintenance pair.
maintenance(T, E) == retry_failed_tracks(cleanup_stale_processing(T, E), E)

\* ------------------------------------------------- the text-embed responder
\* A stream entry's fields, as far as _handle_message looks at them:
\* requestId present or not, text non-blank or not.
Fields == [requestId : BOOLEAN, text : BOOLEAN]

NotPending == [consumer |-> 0, idle |-> FALSE]

RECURSIVE Ascending(_)
Ascending(S) ==
  IF S = {} THEN <<>>
  ELSE LET m == CHOOSE x \in S : \A y \in S : x <= y
       IN <<m>> \o Ascending(S \ {m})

\* An XAUTOCLAIM that never hands over an entry.
claims_nothing(P) == <<>>

\* XAUTOCLAIM from 0-0: the first TEXT_EMBED_CLAIM_BATCH pending entries that
\* have been idle for TEXT_EMBED_CLAIM_IDLE_MS, whoever owns them.
claimed_entries(P) ==
  LET stale == Ascending({e \in Entries : P[e].consumer # 0 /\ P[e].idle})
  IN SubSeq(stale, 1, Min(TEXT_EMBED_CLAIM_BATCH, Len(stale)))

xautoclaim(P, c) ==
  [e \in Entries |->
    IF e \in Range(claimed_entries(P)) THEN [consumer |-> c, idle |-> FALSE]
    ELSE P[e]]

xreadgroup(P, e, c) == [P EXCEPT ![e] = [consumer |-> c, idle |-> FALSE]]

xack(P, e) == [P EXCEPT ![e] = NotPending]

lpush(R, e, payload) == [R EXCEPT ![e] = <<payload>> \o @]

\* get_text_embedding returns None for a blank text and when the model
\* raises; the payload's success is "embedding is not None".
response(e, fields, encoded) ==
  [requestId |-> e, success |-> fields.text /\ encoded]

\* A _handle_message that acknowledges without publishing.
handle_message_silent(R, e, fields, encoded) == R

\* What _handle_message pushes: nothing for an entry without requestId,
\* else one payload on the request's response key.
handle_message_responses(R, e, fields, encoded) ==
  IF ~fields.requestId THEN R
  ELSE lpush(R, e, response(e, fields, encoded))

\* A NOGROUP handling that runs no fallback pipeline.
publish_dropped(R, e, payload, applied) ==
  IF applied THEN lpush(R, e, payload) ELSE R

\* _publish_response_and_ack when the pipeline raises NOGROUP: what the
\* failed pipeline left on the response key, then the fallback's lpush.
publish_without_ack(R, e, payload, applied) ==
  lpush(IF applied THEN lpush(R, e, payload) ELSE R, e, payload)

\* The Redis calls of the responder's loop, and the two kinds of errors
\* redis-py raises: a ConnectionError or TimeoutError, and a ResponseError
\* that is neither NOGROUP nor "unknown command".
RedisCalls == {"xreadgroup", "xautoclaim", "recreate_on_read",
               "recreate_on_claim", "pipeline"}

RedisErrors == {"connection", "response"}

\* TextEmbedHandler.start, the handlers of its loop: does the loop go on
\* after the call raised?  _handle_message catches what its pipelines raise.
\* The loop's `except ResponseError` re-raises what is not NOGROUP, and what
\* _ensure_consumer_group raises inside that handler is caught by nothing;
\* `except Exception` catches the rest.
loop_goes_on(call, error) ==
  IF call = "pipeline" THEN TRUE
  ELSE IF call = "recreate_on_read" THEN FALSE
  ELSE error = "connection"

\* ---------------------------------------------------- the embedding worker
\* DatabaseConnection.is_connected: a connection object is there and
\* SELECT 1 succeeds on it.
is_connected(c, up) == c = "open" /\ up

\* DatabaseConnection.reconnect: close, then connect, which raises when the
\* database is unreachable and leaves conn None.
reconnect_conn(up) == IF up THEN "open" ELSE "none"

reconnect_raises(up) == ~up

\* DatabaseConnection.get_cursor: reconnects when is_connected is false.
get_cursor_conn(c, up) == IF is_connected(c, up) THEN c ELSE reconnect_conn(up)

get_cursor_raises(c, up) == ~is_connected(c, up) /\ reconnect_raises(up)

\* _mark_failed: the UPDATE of the Track row.
mark_failed(V, t) ==
  [V EXCEPT ![t] = [status |-> "failed", retryCount |-> @.retryCount + 1]]

\* _update_track_status: the UPDATE of the Track row.
update_track_status(V, t, status) == [V EXCEPT ![t].status = status]

\* ------------------------------------------------- the search strategy
\* YTMUSIC_SEARCH_MODE, as the sidecar starts without it.
SEARCH_MODE == "auto"

\* What YouTube Music answers to one call: results, the 400 "invalid
\* argument" of an OAuth session on the WEB_REMIX context, an authentication
\* failure, or another error.
Answers == {"ok", "invalid_argument", "auth", "error"}

\* The public client sends no credentials: results, or an error.
PublicAnswers == {"ok", "error"}

\* _resolve_user_search_strategy
resolve_user_search_strategy(F, u) ==
  IF SEARCH_MODE = "tv" THEN "tv"
  ELSE IF SEARCH_MODE = "native" THEN "native"
  ELSE IF u \in F THEN "tv"
  ELSE "native"

\* _is_issue_813_invalid_argument_error and _is_oauth_auth_error, on what a
\* call raised.
is_issue_813_invalid_argument_error(err) == err = "invalid_argument"

is_oauth_auth_error(err) == err = "auth"

\* _invalidate_ytmusic
invalidate_ytmusic(I, u) == [I EXCEPT ![u] = "none"]

\* _get_ytmusic: the cached instance, or a new one from the OAuth file with
\* the context of the user's strategy; 401 without an OAuth file.
get_ytmusic_raises(I, O, u) == I[u] = "none" /\ u \notin O

get_ytmusic(I, O, F, u) ==
  IF I[u] # "none" \/ u \notin O THEN I
  ELSE [I EXCEPT ![u] = resolve_user_search_strategy(F, u)]

\* One call to YouTube Music: the parser that reads the answer and the
\* context of the client that sends the request.
UpstreamCall(parser, context) == [parser |-> parser, context |-> context]

\* A migration that marks no user.
mark_user_never(F, u) == F

\* _ytmusic_auto_tv_fallback_users.add(user_id)
mark_user(F, u) == F \cup {u}

\* _run_ytmusic_with_auth_retry(user, func), where func runs `parser` on the
\* client it is given and the upstream answers o1, then o2: the mark, the
\* instances, the calls made, and "ok" or what is raised.
run_ytmusic_with_auth_retry(F, I, O, u, parser, o1, o2) ==
  IF get_ytmusic_raises(I, O, u)
    THEN [F |-> F, I |-> I, calls |-> <<>>, result |-> "auth"]
  ELSE
    LET I1 == get_ytmusic(I, O, F, u)
        first == UpstreamCall(parser, I1[u])
        migrate == /\ SEARCH_MODE = "auto"
                   /\ u \notin F
                   /\ is_issue_813_invalid_argument_error(o1)
        F2 == IF migrate THEN mark_user(F, u) ELSE F
        I2 == get_ytmusic(invalidate_ytmusic(I1, u), O, F2, u)
        second == UpstreamCall(parser, I2[u])
    IN IF o1 = "ok"
         THEN [F |-> F, I |-> I1, calls |-> <<first>>, result |-> "ok"]
       ELSE IF ~migrate /\ ~is_oauth_auth_error(o1)
         THEN [F |-> F, I |-> I1, calls |-> <<first>>, result |-> o1]
       ELSE IF get_ytmusic_raises(invalidate_ytmusic(I1, u), O, u)
         THEN [F |-> F2, I |-> invalidate_ytmusic(I1, u), calls |-> <<first>>,
               result |-> "auth"]
       ELSE [F |-> F2,
             I |-> IF is_oauth_auth_error(o2) THEN invalidate_ytmusic(I2, u)
                   ELSE I2,
             calls |-> <<first, second>>, result |-> o2]

\* _search_once without a cache entry: on the user's client through
\* _run_ytmusic_with_auth_retry, or on the public client of the strategy,
\* which is rebuilt and tried once more when it fails.
search_once(F, I, O, u, strategy, unauth, o1, o2) ==
  IF ~unauth THEN run_ytmusic_with_auth_retry(F, I, O, u, strategy, o1, o2)
  ELSE IF o1 = "ok"
    THEN [F |-> F, I |-> I,
          calls |-> <<UpstreamCall(strategy, strategy)>>,
          result |-> "ok"]
  ELSE [F |-> F, I |-> I,
        calls |-> <<UpstreamCall(strategy, strategy),
                    UpstreamCall(strategy, strategy)>>,
        result |-> o2]

\* _search_with_mode_fallback
search_with_mode_fallback(F, I, O, u, unauth, o) ==
  LET strategy == resolve_user_search_strategy(F, u)
      native == search_once(F, I, O, u, "native", unauth, o[1], o[2])
      F2 == mark_user(native.F, u)
      I2 == IF unauth THEN native.I ELSE invalidate_ytmusic(native.I, u)
      tv == search_once(F2, I2, O, u, "tv", unauth, o[3], o[4])
  IN IF strategy = "tv"
       THEN [search_once(F, I, O, u, "tv", unauth, o[1], o[2])
               EXCEPT !.result = IF @ = "ok" THEN "tv" ELSE @]
     ELSE IF native.result = "ok"
       THEN [native EXCEPT !.result = "native"]
     ELSE IF SEARCH_MODE # "auto"
             \/ (~unauth /\ is_oauth_auth_error(native.result))
       THEN native
     ELSE [F |-> tv.F, I |-> tv.I, calls |-> native.calls \o tv.calls,
           result |-> IF tv.result = "ok" THEN "tv" ELSE tv.result]

\* --------------------------------------------------- the CLAP model at rest
\* CLAPAnalyzer.unload_model, under the lock: the handle afterwards.
unload_model(handle) == FALSE

\* The branch the idle monitor takes for the idle time it computed.
idle_branch(loaded, idle_seconds) ==
  IF ~loaded THEN "sleep"
  ELSE IF idle_seconds >= MODEL_IDLE_TIMEOUT /\ MODEL_IDLE_TIMEOUT > 0
    THEN "unload"
  ELSE IF idle_seconds >= SLEEP_INTERVAL_TWICE THEN "count"
  ELSE "sleep"

\* self.model.get_..._embedding under the lock: an embedding, or the
\* AttributeError of a None handle, which the except branch turns into None.
encode(handle) == IF handle THEN "model" ELSE "None"

\* ------------------------------------------------ the byte-range proxies
\* The cache key of a request for one user and one resource: the TIDAL
\* sidecar keys by (user, track, quality), the YouTube Music sidecar by
\* "user:video", whatever the quality.
cache_key(sidecar, quality) ==
  IF sidecar = "tidal" THEN <<"tidal", quality>> ELSE <<"ytmusic", "any">>

CacheKeys == {cache_key(s, q) : s \in Sidecars, q \in Qualities}

\* _clear_stream_cache(user, track_id, quality): drops that one key.
clear_stream_cache(C, key) == [C EXCEPT ![key] = "none"]

\* _get_stream_url_sync: the cached entry when there is one, else an
\* extraction whose result is cached.
get_stream_url_source(C, key) == IF C[key] # "none" THEN "cache" ELSE "extract"

get_stream_url_cache(C, key) == [C EXCEPT ![key] = "cached"]

Idle_request ==
  [phase |-> "idle", sidecar |-> "tidal", quality |-> "HIGH", attempt |-> 0,
   source |-> <<>>, seen |-> <<>>, evicted |-> {}, status |-> "none",
   ranged |-> FALSE, streamed |-> FALSE, headers |-> {}]

\* The headers an upstream CDN sends with a status: a partial content answer
\* names its range, every answer declares its length.
upstream_headers(upstream_status) ==
  IF upstream_status = "206"
    THEN {"content-type", "content-length", "content-range"}
  ELSE IF upstream_status = "200" THEN {"content-type", "content-length"}
  ELSE IF upstream_status = "403" THEN {"content-length"}
  ELSE {}

\* What an upstream answers: partial content only to a request with a Range.
upstream_answers(ranged) ==
  IF ranged THEN {"200", "206", "403", "error"} ELSE {"200", "403", "error"}

\* user_stream_proxy: response_headers of the StreamingResponse.
tidal_response_headers(upstream) ==
  {"accept-ranges", "cache-control", "content-type"}
    \cup (upstream \cap {"content-range"})

\* proxy_stream, range branch: response_headers of the StreamingResponse.
yt_range_response_headers(upstream) ==
  {"content-type", "accept-ranges"} \cup (upstream \cap {"content-range"})

\* proxy_stream, request without Range: media_type and headers of the
\* StreamingResponse, built before the upstream is contacted.
yt_response_headers == {"content-type", "accept-ranges", "cache-control"}

\* Whether _open_upstream_stream goes round again: only the first attempt,
\* and only on 401/403.
refresh_once(attempt, upstream_status) ==
  attempt = 0 /\ upstream_status = "403"

\* ------------------------------------------------- the control channel
\* max(1, min(8, new_count)) of _check_control_signals.
clamp(n) == IF n < 1 THEN 1 ELSE IF n > 8 THEN 8 ELSE n

ControlMessages ==
  [command : {"set_workers"}, count : RequestedCounts]
    \cup [command : {"pause", "resume", "stop"}, count : {0}]

Elapse(t) == Min(t + 1, RESIZE_DEBOUNCE_SECONDS)

\* _check_control_signals on the message read (if any): the buffered target.
check_pending_resize(msgs, workers, pending) ==
  IF msgs # <<>> /\ Head(msgs).command = "set_workers"
     /\ clamp(Head(msgs).count) # workers
    THEN clamp(Head(msgs).count)
  ELSE pending

\* ... and the time since it was buffered.
check_pending_elapsed(msgs, workers, elapsed) ==
  IF msgs # <<>> /\ Head(msgs).command = "set_workers"
     /\ clamp(Head(msgs).count) # workers
    THEN 0
  ELSE elapsed

check_is_paused(msgs, paused) ==
  IF msgs # <<>> /\ Head(msgs).command = "pause" THEN TRUE
  ELSE IF msgs # <<>> /\ Head(msgs).command = "resume" THEN FALSE
  ELSE paused

check_running_deaf(msgs, run) == run

check_running(msgs, run) ==
  IF msgs # <<>> /\ Head(msgs).command = "stop" THEN FALSE ELSE run

\* _apply_pending_resize: the buffered target is due.
resize_due(pending, elapsed) ==
  pending # 0 /\ ~(elapsed < RESIZE_DEBOUNCE_SECONDS)

\* _resize_worker_pool(target): the new NUM_WORKERS.
resize_worker_pool(workers, target) == target

\* ------------------------------------------------ the TIDAL user sessions
\* The quality strings a request may carry.
RequestQualities == {"HIGH", "LOSSLESS", "lossless"}

STREAM_QUALITY_OPTIONS == {"LOW", "HIGH", "LOSSLESS", "HI_RES_LOSSLESS"}

\* str.upper() on the strings above.
upper(q) == IF q = "lossless" THEN "LOSSLESS" ELSE q

\* _normalize_stream_quality.
normalize_stream_quality(q) ==
  LET normalized == IF upper(q) = "MAX" THEN "HI_RES_LOSSLESS" ELSE upper(q)
  IN IF normalized \in STREAM_QUALITY_OPTIONS THEN normalized ELSE "HIGH"

\* The stream requests made: one request and those that differ from it in
\* the user, in the resource or in the quality.
StreamRequests ==
  {r \in [user : Users, resource : Resources, quality : RequestQualities] :
     Cardinality({f \in {"user", "resource", "quality"} :
                    r[f] # [user |-> 1, resource |-> 1, quality |-> "HIGH"][f]})
       <= 1}

\* cache_key of tidal _get_stream_url_sync.
tidal_cache_key(r) == <<r.user, r.resource, normalize_stream_quality(r.quality)>>

\* The exceptions a provider call raises; NoError stands for its success.
NoError == [api_error |-> FALSE, status |-> 0, sub_status |-> 0, message |-> ""]

Errors ==
  { [api_error |-> TRUE, status |-> 401, sub_status |-> 11003, message |-> ""],
    [api_error |-> TRUE, status |-> 401, sub_status |-> 0,
     message |-> "token has expired"],
    [api_error |-> TRUE, status |-> 401, sub_status |-> 0, message |-> ""],
    [api_error |-> FALSE, status |-> 401, sub_status |-> 11003,
     message |-> "token has expired"] }

\* The errors by which the provider signals an expired access token.
TokenExpiredSignals ==
  {e \in Errors : /\ e.api_error
                  /\ e.status = 401
                  /\ e.sub_status = 11003 \/ e.message = "token has expired"}

\* A recognizer that looks at the HTTP status alone.
is_unauthorized_error(err) == err.status = 401

\* _is_token_expired_error.
is_token_expired_error(err) ==
  /\ err.api_error
  /\ err.status = 401
  /\ \/ err.sub_status = 11003
     \/ err.message \in {"token has expired", "expired on time"}

\* What the provider answers to a call made with an access token: the
\* token-expired signal for an expired token, success or another error
\* otherwise.
ProviderOutcomes(token, dead) ==
  IF token \in dead THEN TokenExpiredSignals
  ELSE {NoError} \cup (Errors \ TokenExpiredSignals)

\* _get_user_api: the handle, or 401.
get_user_api(apis, u) ==
  IF apis[u] = 0 THEN [status |-> "401", api |-> 0]
  ELSE [status |-> "ok", api |-> apis[u]]

\* dict.pop(key, None) on a cache.
Without(C, keys) == [k \in DOMAIN C \ keys |-> C[k]]

\* dict[key] = value on a cache.
With(C, key, value) ==
  [k \in DOMAIN C \cup {key} |-> IF k = key THEN value ELSE C[k]]

\* A clear that empties the cache.
clear_whole_stream_cache(C, u) == Without(C, DOMAIN C)

\* _clear_stream_cache(user_id): the entries of the user are removed.
clear_user_stream_cache(C, u) == Without(C, {k \in DOMAIN C : k[1] = u})

\* _invalidate_user_api, on the three dictionaries.
invalidate_user_api(S, u) ==
  [apis |-> [S.apis EXCEPT ![u] = 0],
   auth |-> [S.auth EXCEPT ![u] = "none"],
   cache |-> clear_user_stream_cache(S.cache, u)]

\* A lock that admits every call.
lock_always_free(locks, u) == TRUE

\* The per-user lock is free for a call to enter.
lock_free(locks, u) == locks[u] = 0

\* The cache read of _get_stream_url_sync: a hit while now < expires_at.
tidal_cache_hit(C, key, t) == key \in DOMAIN C /\ t < C[key].expires_at

\* "expires_at": time.time() + STREAM_CACHE_TTL, evaluated once the provider
\* has answered, took after the lookup started at t.
stamp(t, took, ttl) == t + took + ttl

\* tidal _get_stream_url_sync(user_id, track_id, quality), started at t,
\* against a provider that answers outcome after took: the value returned or
\* the exception raised, and the cache it leaves.
get_stream_url_sync(C, apis, r, t, took, outcome) ==
  LET key == tidal_cache_key(r)
      result == [expires_at |-> stamp(t, took, STREAM_CACHE_TTL),
                 user |-> r.user,
                 resource |-> r.resource,
                 quality |-> normalize_stream_quality(r.quality)]
  IN IF tidal_cache_hit(C, key, t)
       THEN [status |-> "ok", error |-> NoError, value |-> C[key], cache |-> C]
     ELSE IF get_user_api(apis, r.user).status = "401"
       THEN [status |-> "401", error |-> NoError, value |-> result, cache |-> C]
     ELSE IF outcome # NoError
       THEN [status |-> "error", error |-> outcome, value |-> result,
             cache |-> C]
     ELSE [status |-> "ok", error |-> NoError, value |-> result,
           cache |-> With(C, key, result)]

\* ---------------------------------------------------- the stream-URL caches
\* cache_key of ytmusic _get_stream_url_sync: f"{user_id}:{video_id}".
yt_cache_key(r) == <<r.user, r.resource>>

\* format_map.get(quality, format_map["HIGH"]): the quality extracted.
format_quality(q) ==
  IF q \in {"LOW", "MEDIUM", "HIGH", "LOSSLESS"} THEN q ELSE "HIGH"

\* A read that still serves the entry at its expiry time.
yt_cache_hit_at_expiry(C, key, t) == key \in DOMAIN C /\ C[key].expires_at >= t

\* The cache read of ytmusic _get_stream_url_sync: expires_at > time.time().
yt_cache_hit(C, key, t) == key \in DOMAIN C /\ C[key].expires_at > t

\* random.uniform(EXTRACT_DELAY_MIN, EXTRACT_DELAY_MAX), on the clock's grid.
Jitter == EXTRACT_DELAY_MIN..EXTRACT_DELAY_MAX

\* sleep_time of ytmusic _get_stream_url_sync: the rest of the gap min_gap
\* after the extraction stamped at last, seen at t.
sleep_time(t, last, min_gap) ==
  IF t - last < min_gap THEN min_gap - (t - last) ELSE 0

\* The result dictionary of an extraction finished at t.
yt_result(r, t) ==
  [expires_at |-> stamp(t, 0, YT_STREAM_CACHE_TTL), user |-> r.user,
   resource |-> r.resource, quality |-> format_quality(r.quality)]

\* ytmusic _get_stream_url_sync(user_id, video_id, quality), started at t
\* and run without interruption: a cache hit, or the pacing sleep, the stamp
\* of _last_extract_time and an extraction that succeeds or not after took.
yt_get_stream_url_sync(C, last, r, t, min_gap, took, ok) ==
  LET key == yt_cache_key(r)
      started == t + sleep_time(t, last, min_gap)
      result == yt_result(r, started + took)
  IN IF yt_cache_hit(C, key, t)
       THEN [status |-> "ok", hit |-> TRUE, value |-> C[key], cache |-> C,
             last |-> last, finished |-> t]
     ELSE IF ~ok
       THEN [status |-> "502", hit |-> FALSE, value |-> result, cache |-> C,
             last |-> started, finished |-> started + took]
     ELSE [status |-> "ok", hit |-> FALSE, value |-> result,
           cache |-> With(C, key, result),
           last |-> started, finished |-> started + took]

\* _clean_stream_cache of the YouTube Music sidecar.
yt_clean_stream_cache(C, t) ==
  Without(C, {k \in DOMAIN C : C[k].expires_at <= t})

NoEntry == [expires_at |-> 0, user |-> 0, resource |-> 0, quality |-> ""]

NoLookup ==
  [sidecar |-> "none", request |-> [user |-> 0, resource |-> 0, quality |-> ""],
   status |-> "none", hit |-> FALSE, stale |-> FALSE, value |-> NoEntry,
   at |-> 0]

InitCache ==
  /\ ytmusic_stream_cache = [k \in {} |-> NoEntry]
  /\ returned = NoLookup

Threads == 1..NumThreads

IdleThread ==
  [pc |-> "idle", request |-> [user |-> 1, resource |-> 1, quality |-> "HIGH"],
   min_gap |-> 0, wake |-> 0]

\* _last_extract_time starts at 0.0 on a clock that reads the epoch time: the
\* first extraction finds every gap elapsed.
InitExtract ==
  /\ last_extract_time = -EXTRACT_DELAY_MAX
  /\ threads = [th \in Threads |-> IdleThread]

IdleCall ==
  [pc |-> "idle", request |-> [user |-> 1, resource |-> 1, quality |-> "HIGH"],
   current_api |-> 0, runs |-> 0, refreshes |-> 0, first_error |-> NoError,
   status |-> "none"]

InitSession ==
  /\ user_apis = [u \in Users |-> 0]
  /\ user_auth_state = [u \in Users |-> "none"]
  /\ user_api_locks = [u \in Users |-> 0]
  /\ tidal_stream_cache = [k \in {} |-> NoEntry]
  /\ now = 0
  /\ expired = {}
  /\ next_token = 1
  /\ token_user = [t \in Tokens |-> 0]
  /\ calls = [c \in Calls |-> IdleCall]
  /\ refresh_calls = [u \in Users |-> 0]
  /\ invalidated = 0

\* ---------------------------------------------------------- the batch search
\* A semaphore that admits every task.
semaphore_open(value) == TRUE

\* asyncio.Semaphore: acquire() goes through while the value is positive.
semaphore_free(value) == value > 0

\* _get_cached_search: a live entry for the query.
get_cached_search(cache, q) == q \in cache

\* How a query run by _search_with_mode_fallback ends: its results, an
\* exception reported in the result, or an HTTPException raised.
SearchOutcomes == {"ok", "error", "http_error"}

\* _search_once stores the results of a search that succeeded.
set_cached_search(cache, q, outcome) ==
  IF outcome = "ok" THEN cache \cup {q} ELSE cache

IdleTask == [pc |-> "idle", query |-> 0]

InitSearch ==
  /\ batch_semaphore = BATCH_CONCURRENCY
  /\ search_cache = {}
  /\ tasks = [t \in Tasks |-> IdleTask]
  /\ released_by = {}

\* ------------------------------------------------- the analyzer environment
\* A string is the sequence of its characters.
DIGITS == <<"0", "1", "2", "3", "4", "5", "6", "7", "8", "9">>

THREAD_ENV_KEYS ==
  {"OMP_NUM_THREADS", "OPENBLAS_NUM_THREADS", "MKL_NUM_THREADS",
   "NUMEXPR_MAX_THREADS"}

TF_ENV_KEYS ==
  {"TF_CPP_MIN_LOG_LEVEL", "TF_NUM_INTRAOP_THREADS", "TF_NUM_INTEROP_THREADS"}

\* The variable the tests of get_int_env set and delete.
TEST_ENV_KEY == "MVR12_TEST_INT"

\* The values a deployment gives a variable.
RECURSIVE StringsUpTo(_)
StringsUpTo(n) ==
  IF n = 0 THEN {<<>>}
  ELSE LET shorter == StringsUpTo(n - 1)
       IN shorter \cup {Append(s, c) : s \in shorter, c \in Chars}

is_digit(c) == c \in Range(DIGITS)

digit_value(c) == (CHOOSE i \in DOMAIN DIGITS : DIGITS[i] = c) - 1

\* str(n) of a natural number.
RECURSIVE str_nat(_)
str_nat(n) ==
  IF n < 10 THEN <<DIGITS[n + 1]>>
  ELSE Append(str_nat(n \div 10), DIGITS[(n % 10) + 1])

\* str(n) of an int.
str_int(n) == IF n < 0 THEN <<"-">> \o str_nat(-n) ELSE str_nat(n)

\* str.strip(): the string without its leading and trailing whitespace.
RECURSIVE strip(_)
strip(s) ==
  IF s = <<>> THEN s
  ELSE IF Head(s) = " " THEN strip(Tail(s))
  ELSE IF s[Len(s)] = " " THEN strip(SubSeq(s, 1, Len(s) - 1))
  ELSE s

\* The digits of an int literal: digits, single underscores between them.
is_digit_run(s) ==
  /\ s # <<>>
  /\ \A i \in DOMAIN s :
       \/ is_digit(s[i])
       \/ /\ s[i] = "_"
          /\ i > 1 /\ i < Len(s)
          /\ is_digit(s[i - 1]) /\ is_digit(s[i + 1])

RECURSIVE digits_value(_, _)
digits_value(s, acc) ==
  IF s = <<>> THEN acc
  ELSE IF Head(s) = "_" THEN digits_value(Tail(s), acc)
  ELSE digits_value(Tail(s), 10 * acc + digit_value(Head(s)))

ValueError == [ok |-> FALSE, value |-> 0]

\* int(s) of a string: whitespace around it, a sign, then the digits.
int_of_str(s) ==
  LET t == strip(s)
      signed == t # <<>> /\ Head(t) \in {"+", "-"}
      body == IF signed THEN Tail(t) ELSE t
  IN IF ~is_digit_run(body) THEN ValueError
     ELSE [ok |-> TRUE,
           value |-> IF signed /\ Head(t) = "-" THEN -digits_value(body, 0)
                     ELSE digits_value(body, 0)]

\* A getenv that never finds the variable.
getenv_unset(env, name, default) == default

\* os.getenv(name, default)
getenv(env, name, default) ==
  IF name \in DOMAIN env THEN env[name] ELSE default

\* get_int_env(name, default)
get_int_env(env, name, default) == int_of_str(getenv(env, name, str_int(default)))

RECURSIVE set_all(_, _, _)
set_all(env, keys, value) ==
  IF keys = {} THEN env
  ELSE LET k == CHOOSE k \in keys : TRUE
       IN set_all(With(env, k, value), keys \ {k}, value)

\* A configure_thread_env that sets the TensorFlow variables in every case.
configure_thread_env_tf(env, threads_per_worker, configure_tensorflow) ==
  LET thread_count == str_int(threads_per_worker)
      tf == With(With(With(env, "TF_CPP_MIN_LOG_LEVEL", <<"2">>),
                      "TF_NUM_INTRAOP_THREADS", thread_count),
                 "TF_NUM_INTEROP_THREADS", <<"1">>)
  IN set_all(tf, THREAD_ENV_KEYS, thread_count)

\* configure_thread_env(threads_per_worker, configure_tensorflow)
configure_thread_env(env, threads_per_worker, configure_tensorflow) ==
  LET thread_count == str_int(threads_per_worker)
      tf == IF configure_tensorflow
              THEN With(With(With(env, "TF_CPP_MIN_LOG_LEVEL", <<"2">>),
                             "TF_NUM_INTRAOP_THREADS", thread_count),
                        "TF_NUM_INTEROP_THREADS", <<"1">>)
            ELSE env
  IN set_all(tf, THREAD_ENV_KEYS, thread_count)

NoEnvCall ==
  [op |-> "none", name |-> "", default |-> 0, threads |-> 0, tf |-> FALSE,
   before |-> [k \in {} |-> <<>>], result |-> ValueError]

InitEnv ==
  /\ environ = [k \in {} |-> <<>>]
  /\ env_call = NoEnvCall

\* ---------------------------------------------------------- the analysis job
\* A file to analyse: whether it exists, whether it is over MAX_FILE_SIZE_MB,
\* what MonoLoader does with it, the audio it yields and how the feature
\* extraction ends.
SoundFile ==
  [exists |-> TRUE, oversized |-> FALSE, load |-> "audio", duration |-> 500,
   finite |-> TRUE, silent |-> 0, analysis |-> "ok"]

AllFiles ==
  [exists : BOOLEAN, oversized : BOOLEAN,
   load : {"audio", "unsupported", "MemoryError"}, duration : Durations,
   finite : BOOLEAN, silent : {0, 8, 9}, analysis : {"ok", "MemoryError", "error"}]

Flaws(f) == Cardinality({k \in DOMAIN SoundFile : f[k] # SoundFile[k]})

Files == {f \in AllFiles : Flaws(f) <= MaxFlaws}

\* f"{x:.1f}" of a duration given in hundredths (none of them on a tie).
format_1f(hundredths) ==
  LET tenths == (hundredths + 5) \div 10
  IN str_nat(tenths \div 10) \o <<".">> \o str_nat(tenths % 10)

\* f"{x:.0f}" of a percentage given as a fraction n / d (none on a tie).
format_0f_percent(n, d) == str_nat((200 * n + d) \div (2 * d))

NoMessage == <<>>

\* AudioAnalyzer.load_audio: the audio, or None when MonoLoader raises
\* (every Exception is caught, MemoryError included).
load_audio(f) == IF f.load = "audio" THEN "audio" ELSE "None"

\* AudioAnalyzer.validate_audio: the message of the rejection, or none.
validate_audio(f) ==
  IF f.duration < 500
    THEN <<"Audio too short: ">> \o format_1f(f.duration) \o <<"s (minimum 5s)">>
  ELSE IF ~f.finite THEN <<"Audio contains NaN or Inf values (corrupted)">>
  ELSE IF 10 * f.silent > 8 * NumFrames
    THEN <<"Audio is ">> \o format_0f_percent(f.silent, NumFrames)
           \o <<"% silence (likely corrupted or blank)">>
  ELSE NoMessage

\* What a pool child returns for a job: the '_error' and '_permanent' entries
\* of the features dict (no '_error': the features of a success).
Returned(error, permanent) == [error |-> error, permanent |-> permanent]

\* AudioAnalyzer.analyze
analyze(f) ==
  IF load_audio(f) = "None" THEN Returned(NoMessage, FALSE)
  ELSE IF validate_audio(f) # NoMessage THEN Returned(validate_audio(f), FALSE)
  ELSE IF f.analysis = "MemoryError"
    THEN Returned(<<"MemoryError: analysis exceeded memory limits">>, FALSE)
  ELSE Returned(NoMessage, FALSE)

\* _analyze_track_in_process
analyze_track_in_process(f) ==
  IF ~f.exists THEN Returned(<<"File not found">>, FALSE)
  ELSE IF f.oversized THEN Returned(<<"File too large">>, TRUE)
  ELSE analyze(f)

\* The Track row of a job: the analysis columns and analysisError.
NewJobRow ==
  [status |-> "pending", retryCount |-> 0, startedAt |-> "null",
   updatedAt |-> "fresh", error |-> NoMessage]

\* The table whose rows are all this row.
OneRow(row) == [t \in Tracks |-> row]

\* _save_failed, the UPDATE of the Track row with its analysisError.
save_failed_row(row, error, permanent) ==
  [save_failed(OneRow(row), 1, permanent)[1] EXCEPT !.error = error]

\* _save_results, the UPDATE of the Track row with its analysisError.
save_results_row(row) ==
  [save_results(OneRow(row), 1)[1] EXCEPT !.error = NoMessage]

NoFailure ==
  [present |-> FALSE, retryCount |-> 0, resolved |-> FALSE, skipped |-> FALSE,
   errorMessage |-> NoMessage]

\* An upsert that leaves resolved and skipped as they are.
upsert_failure_keeping(F, error) ==
  IF ~F.present
    THEN [NoFailure EXCEPT !.present = TRUE, !.retryCount = 1,
                           !.errorMessage = error]
  ELSE [F EXCEPT !.retryCount = @ + 1, !.errorMessage = error]

\* _save_failed, INSERT ... ON CONFLICT DO UPDATE on EnrichmentFailure.
upsert_failure(F, error) ==
  IF ~F.present
    THEN [NoFailure EXCEPT !.present = TRUE, !.retryCount = 1,
                           !.errorMessage = error]
  ELSE [F EXCEPT !.retryCount = @ + 1, !.errorMessage = error,
                 !.resolved = FALSE, !.skipped = FALSE]

\* _save_results, UPDATE EnrichmentFailure SET resolved = true.
resolve_failure(F) == IF F.present THEN [F EXCEPT !.resolved = TRUE] ELSE F

IdleJob ==
  [pc |-> "idle", file |-> SoundFile, features |-> Returned(NoMessage, FALSE),
   before |-> NewJobRow, failure_before |-> NoFailure]

InitJob ==
  /\ job = IdleJob
  /\ job_row = NewJobRow
  /\ failure = NoFailure

\* ------------------------------------------------------ the loop under faults
\* _ensure_pool: a handle that is there while pool_active is set is kept as
\* it is, broken or not; otherwise a new pool is created.
ensure_pool(ex, active) == IF active /\ ex # "none" THEN ex ELSE "live"

\* The plain-string control messages.
PauseMessages == {m \in ControlMessages : m.command # "set_workers"}

InitFault ==
  /\ faults = 0
  /\ stranded = {}

\* ------------------------------------------------ the responder and Redis
\* TextEmbedHandler.start has run _ensure_consumer_group before its loop.
InitRedis ==
  /\ group = TRUE
  /\ resets = 0
  /\ expire = {}
  /\ redis_errors = 0
  /\ fallback = {}

\* ---------------------------------------------------- the embedding worker
\* Worker.start has connected to the database before its loop.
InitEmbed ==
  /\ db_up = TRUE
  /\ conn = "open"
  /\ worker_loop = "running"
  /\ clap_queue = <<>>
  /\ vibe = [t \in Tracks |-> [status |-> "pending", retryCount |-> 0]]
  /\ held = 0
  /\ outages = 0

\* ------------------------------------------------- the search strategy
NoSearch ==
  [route |-> "none", user |-> 0, unauth |-> FALSE, marked |-> FALSE,
   first |-> "none", calls |-> <<>>, result |-> "none"]

\* An authentication route: it calls nothing upstream.
AuthRoute(route, u) == [NoSearch EXCEPT !.route = route, !.user = u]

InitMode ==
  /\ auto_tv_fallback_users = {}
  /\ ytmusic_instances = [u \in Users |-> "none"]
  /\ oauth_files = {}
  /\ searched = NoSearch

\* --------------------------------------------------- the CLAP model at rest
IdleEmbedder == [pc |-> "idle", kind |-> "none", encoded_on |-> "none"]

\* main has loaded the model before it starts the threads.
InitIdle ==
  /\ model_handle = TRUE
  /\ model_loaded = TRUE
  /\ last_work_time = 0
  /\ wall = 0
  /\ embedders = [th \in Embedders |-> IdleEmbedder]
  /\ idle_monitor = [pc |-> "sleep", idle_seconds |-> 0]

\* ------------------------------------------------------------------- Init
InitText ==
  /\ stream = <<>>
  /\ last_delivered = 0
  /\ pel = [e \in Entries |-> NotPending]
  /\ responses = [e \in Entries |-> <<>>]
  /\ acked = {}
  /\ consumer = [c \in Consumers |-> "live"]
  /\ work = [c \in Consumers |-> <<>>]
  /\ orphaned = {}

InitProxy ==
  /\ stream_cache = [k \in CacheKeys |-> "none"]
  /\ request = Idle_request

InitControl ==
  /\ NUM_WORKERS = DEFAULT_WORKERS
  /\ pending_resize = 0
  /\ pending_elapsed = 0
  /\ is_paused = FALSE
  /\ running = TRUE
  /\ pubsub = <<>>
  /\ since_set_workers = RESIZE_DEBOUNCE_SECONDS
  /\ last_requested = 0

Init ==
  /\ InitControl
  /\ InitIdle
  /\ InitMode
  /\ InitEmbed
  /\ InitRedis
  /\ InitFault
  /\ InitJob
  /\ InitEnv
  /\ InitSearch
  /\ InitSession
  /\ InitCache
  /\ InitExtract
  /\ InitText
  /\ InitProxy
  /\ Track = [t \in Tracks |-> NewRow]
  /\ track_embeddings = {}
  /\ queue = <<>>
  /\ pc = "start"
  /\ tracks = <<>>
  /\ futures = <<>>
  /\ executor = "none"
  /\ pool_active = FALSE
  /\ crashes = 0
  /\ lastOp = "init"

\* ------------------------------------------------------- outside the worker
\* The embedding worker commits an embedding row (Worker._store_embedding).
StoreEmbedding(t) ==
  /\ t \notin track_embeddings
  /\ track_embeddings' = track_embeddings \cup {t}
  /\ lastOp' = "store_embedding"
  /\ UNCHANGED <<notWorker, Track, queue, pc, batchVars, poolVars, crashes>>

\* Time passes: a processing row's analysisStartedAt falls out of the
\* staleness window.  (Every write that sets processing also sets
\* analysisStartedAt, and the timestamps of other rows are overwritten before
\* they are read.)
Age(t) ==
  /\ Track[t].status = "processing"
  /\ Track[t].startedAt = "fresh"
  /\ Track' = [Track EXCEPT ![t] = [@ EXCEPT !.startedAt = "stale"]]
  /\ lastOp' = "age"
  /\ UNCHANGED <<notWorker, track_embeddings, queue, pc, batchVars, poolVars, crashes>>

\* The worker process dies: the batch in flight and the pool are lost.
Crash ==
  /\ pc # "start"
  /\ crashes < MaxCrashes
  /\ crashes' = crashes + 1
  /\ tracks' = <<>> /\ futures' = <<>>
  /\ executor' = "none" /\ pool_active' = FALSE
  /\ pc' = "start"
  /\ lastOp' = "crash"
  /\ UNCHANGED <<notWorker, dbVars, queue>>

\* ------------------------------------------------------------- the worker
\* start(), before the loop: cleanup, retry, reconciliation.
Start ==
  /\ pc = "start"
  /\ LET T1 == maintenance(Track, track_embeddings)
     IN /\ Track' = reconciliation_mark(T1)
        /\ queue' = reconciliation_push(T1, queue)
  /\ pc' = "loop"
  /\ lastOp' = "start"
  /\ UNCHANGED <<notWorker, track_embeddings, batchVars, poolVars, crashes>>

\* process_batch_parallel: BRPOP the rightmost job, LPOP up to BATCH_SIZE - 1
\* more from the left, then _process_tracks_parallel up to the submit.
PopBatch ==
  /\ pc = "loop"
  /\ queue # <<>>
  /\ LET first == queue[Len(queue)]
         rest == SubSeq(queue, 1, Len(queue) - 1)
         k == Min(BATCH_SIZE - 1, Len(rest))
         queued_jobs == <<first>> \o SubSeq(rest, 1, k)
         kept == SelectIn(queued_jobs, valid_ids(Track, queued_jobs))
     IN /\ queue' = SubSeq(rest, k + 1, Len(rest))
        /\ Track' = mark_processing(Track, queued_jobs)
        /\ tracks' = kept
        /\ futures' = [i \in 1..Len(kept) |-> "running"]
  /\ executor' = ensure_pool_executor(executor, pool_active)
  /\ pool_active' = TRUE
  /\ pc' = "collect"
  /\ lastOp' = "pop_batch"
  /\ UNCHANGED <<notWorker, track_embeddings, crashes>>

\* A pool child finishes a job.
FutureDone(i) ==
  /\ pc = "collect"
  /\ i \in DOMAIN futures
  /\ futures[i] = "running"
  /\ futures' = [futures EXCEPT ![i] = "done"]
  /\ lastOp' = "future_done"
  /\ UNCHANGED <<notWorker, dbVars, queue, pc, tracks, poolVars, crashes>>

\* as_completed yields a finished future; its outcome (features, a recoverable
\* error or a permanent one) is saved.
Collect(i, outcome) ==
  /\ pc = "collect"
  /\ i \in DOMAIN futures
  /\ futures[i] = "done"
  /\ Track' = IF outcome = "ok" THEN save_results(Track, tracks[i])
              ELSE save_failed(Track, tracks[i], outcome = "permanent")
  /\ futures' = [futures EXCEPT ![i] = "collected"]
  /\ lastOp' = "collect"
  /\ UNCHANGED <<notWorker, track_embeddings, queue, pc, tracks, poolVars, crashes>>

\* The batch is done: back to the loop; every 50th batch runs maintenance.
BatchDone(periodic) ==
  /\ pc = "collect"
  /\ \A i \in DOMAIN futures : futures[i] = "collected"
  /\ Track' = IF periodic THEN maintenance(Track, track_embeddings) ELSE Track
  /\ tracks' = <<>> /\ futures' = <<>>
  /\ pc' = "loop"
  /\ lastOp' = IF periodic THEN "batch_maintenance" ELSE "batch_done"
  /\ UNCHANGED <<notWorker, track_embeddings, queue, poolVars, crashes>>

\* as_completed raises FuturesTimeoutError: every future that is not done is
\* cancelled and failed permanently; a done one is skipped.
RECURSIVE fail_unfinished(_, _, _, _)
fail_unfinished(T, ts, fs, i) ==
  IF i > Len(fs) THEN T
  ELSE fail_unfinished(IF fs[i] = "running" THEN save_failed(T, ts[i], TRUE) ELSE T,
                       ts, fs, i + 1)

BatchTimeout(periodic) ==
  /\ pc = "collect"
  /\ \E i \in DOMAIN futures : futures[i] # "collected"
  /\ LET T1 == fail_unfinished(Track, tracks, futures, 1)
     IN Track' = IF periodic THEN maintenance(T1, track_embeddings) ELSE T1
  /\ tracks' = <<>> /\ futures' = <<>>
  /\ pc' = "loop"
  /\ lastOp' = IF periodic THEN "timeout_maintenance" ELSE "batch_timeout"
  /\ UNCHANGED <<notWorker, track_embeddings, queue, poolVars, crashes>>

\* A pool child dies: the first broken future collected requeues the tracks
\* not finalized, BrokenProcessPool reaches start(), which recreates the
\* pool and runs _cleanup_stale_processing.
PoolCrash ==
  /\ pc = "collect"
  /\ \E i \in DOMAIN futures : futures[i] = "running"
  /\ LET remaining == SelectIn(tracks, Tracks \ finalized_track_ids)
         T1 == requeue_reset(Track, remaining)
     IN /\ queue' = requeue_push(Track, remaining, queue)
        /\ Track' = cleanup_stale_processing(T1, track_embeddings)
  /\ tracks' = <<>> /\ futures' = <<>>
  /\ executor' = "live" /\ pool_active' = TRUE
  /\ pc' = "loop"
  /\ lastOp' = "pool_crash"
  /\ UNCHANGED <<notWorker, track_embeddings, crashes>>

\* BRPOP times out on an empty queue, the idle branch of the loop runs: DB
\* reconciliation, pool shutdown when no work was found, and every
\* IDLE_SHUTDOWN_CYCLES-th time the maintenance pair.
IdleMaintenance(periodic) ==
  /\ pc = "loop"
  /\ queue = <<>>
  /\ LET found_work == reconciliation_select(Track) # <<>>
         T1 == reconciliation_mark(Track)
     IN /\ queue' = reconciliation_push(Track, queue)
        /\ Track' = IF periodic THEN maintenance(T1, track_embeddings) ELSE T1
        /\ executor' = IF found_work THEN executor
                       ELSE shutdown_pool_executor(executor, pool_active)
        /\ pool_active' = IF found_work THEN pool_active
                          ELSE shutdown_pool_active(executor, pool_active)
  /\ lastOp' = IF periodic THEN "idle_maintenance" ELSE "idle_reconcile"
  /\ UNCHANGED <<notWorker, track_embeddings, pc, batchVars, crashes>>

Next ==
  \/ \E t \in Tracks : StoreEmbedding(t)
  \/ \E t \in Tracks : Age(t)
  \/ Crash
  \/ Start
  \/ PopBatch
  \/ \E i \in 1..BATCH_SIZE : FutureDone(i)
  \/ \E i \in 1..BATCH_SIZE, o \in {"ok", "error", "permanent"} : Collect(i, o)
  \/ \E p \in BOOLEAN : BatchDone(p)
  \/ \E p \in BOOLEAN : BatchTimeout(p)
  \/ PoolCrash
  \/ \E p \in BOOLEAN : IdleMaintenance(p)

Spec == Init /\ [][Next]_vars

\* ------------------------------------------- the text-embed responder steps
\* A caller XADDs a request.
AddRequest(fields) ==
  /\ Len(stream) < MaxEntries
  /\ stream' = Append(stream, fields)
  /\ UNCHANGED <<notText, last_delivered, pel, responses, acked, consumer,
                 work, orphaned>>

\* TextEmbedHandler.start: xreadgroup(">", count=1) delivers the next entry.
ReadGroup(c) ==
  /\ consumer[c] = "live"
  /\ work[c] = <<>>
  /\ last_delivered < Len(stream)
  /\ LET e == last_delivered + 1
     IN /\ last_delivered' = e
        /\ pel' = xreadgroup(pel, e, c)
        /\ work' = [work EXCEPT ![c] = <<e>>]
  /\ UNCHANGED <<notText, stream, responses, acked, consumer, orphaned>>

\* _claim_stale_messages, every 5 seconds of the loop: the claimed entries
\* are handled next.  With nothing to claim the call changes nothing.
ClaimStale(c) ==
  /\ consumer[c] = "live"
  /\ work[c] = <<>>
  /\ claimed_entries(pel) # <<>>
  /\ pel' = xautoclaim(pel, c)
  /\ work' = [work EXCEPT ![c] = claimed_entries(pel)]
  /\ UNCHANGED <<notText, stream, last_delivered, responses, acked, consumer,
                 orphaned>>

\* _handle_message on the entry at hand: encode, then the pipeline
\* lpush + expire + xack (or the bare xack of an entry without requestId).
HandleMessage(c, encoded) ==
  /\ consumer[c] = "live"
  /\ work[c] # <<>>
  /\ LET e == Head(work[c])
     IN /\ responses' = handle_message_responses(responses, e, stream[e], encoded)
        /\ pel' = xack(pel, e)
        /\ acked' = IF pel[e] # NotPending THEN acked \cup {e} ELSE acked
  /\ work' = [work EXCEPT ![c] = Tail(@)]
  /\ UNCHANGED <<notText, stream, last_delivered, consumer, orphaned>>

\* A pending entry has not been touched for TEXT_EMBED_CLAIM_IDLE_MS.
Idle(e) ==
  /\ pel[e].consumer # 0
  /\ ~pel[e].idle
  /\ pel' = [pel EXCEPT ![e].idle = TRUE]
  /\ UNCHANGED <<notText, stream, last_delivered, responses, acked, consumer,
                 work, orphaned>>

\* A consumer's process dies; what it had read and not acknowledged stays
\* pending under its name.
ConsumerDies(c) ==
  /\ consumer[c] = "live"
  /\ Cardinality({d \in Consumers : consumer[d] = "dead"}) < MaxConsumerCrashes
  /\ consumer' = [consumer EXCEPT ![c] = "dead"]
  /\ work' = [work EXCEPT ![c] = <<>>]
  /\ orphaned' = orphaned \cup {e \in Entries : pel[e].consumer = c}
  /\ UNCHANGED <<notText, stream, last_delivered, pel, responses, acked>>

NextText ==
  \/ \E f \in Fields : AddRequest(f)
  \/ \E c \in Consumers : ReadGroup(c)
  \/ \E c \in Consumers : ClaimStale(c)
  \/ \E c \in Consumers, encoded \in BOOLEAN : HandleMessage(c, encoded)
  \/ \E e \in Entries : Idle(e)
  \/ \E c \in Consumers : ConsumerDies(c)

SpecText == Init /\ [][NextText]_vars

\* The responder under its loop's scheduling: a live consumer keeps reading,
\* keeps making its claim tick and finishes the entry it handles, and the
\* idle time of a pending entry keeps growing.  No consumer is forced to die.
FairText ==
  /\ SpecText
  /\ \A c \in Consumers : WF_vars(ReadGroup(c))
  /\ \A c \in Consumers : WF_vars(ClaimStale(c))
  /\ \A c \in Consumers : WF_vars(\E encoded \in BOOLEAN : HandleMessage(c, encoded))
  /\ \A e \in Entries : WF_vars(Idle(e))

\* ------------------------------------- the responder on a Redis that resets
outsideResponder == <<workerVars, proxyVars, controlVars, sessionVars,
                      cacheVars, extractVars, searchVars, envVars, jobVars,
                      faultVars,
                      embedVars,
                      modeVars,
                      idleVars>>

\* The Redis server is reset: the stream with its group and pending list and
\* the response keys are gone.  What the consumers hold in memory stays.
\* (The entries stay in `stream` as a record of what was added; the lost ones
\* are those up to last_delivered.)
ServerReset ==
  /\ resets < MaxResets
  /\ resets' = resets + 1
  /\ group' = FALSE
  /\ expire' = {}
  /\ last_delivered' = Len(stream)
  /\ pel' = [e \in Entries |-> NotPending]
  /\ responses' = [e \in Entries |-> <<>>]
  /\ UNCHANGED <<outsideResponder, stream, acked, consumer, work, orphaned,
                 redis_errors, fallback>>

\* xreadgroup with the group in place.
ReadStream(c) == group /\ ReadGroup(c)

\* _claim_stale_messages with the group in place.
ClaimStream(c) == group /\ ClaimStale(c)

\* xreadgroup or xautoclaim answers NOGROUP: _ensure_consumer_group creates
\* the group from id 0 (with mkstream), and the loop goes on.
RecreateGroup(c) ==
  /\ consumer[c] = "live"
  /\ work[c] = <<>>
  /\ ~group
  /\ group' = TRUE
  /\ UNCHANGED <<notRedis, resets, expire, redis_errors, fallback>>

\* _handle_message on the entry at hand, on a Redis that answers.  With the
\* group in place the pipeline lpush + expire + xack runs (a bare xack for an
\* entry without requestId).  Without the group the pipeline raises NOGROUP,
\* after its lpush and expire were applied or before: the group is created
\* again and the fallback pipeline runs lpush + expire.
HandleEntry(c, encoded, applied) ==
  /\ consumer[c] = "live"
  /\ work[c] # <<>>
  /\ LET e == Head(work[c])
         fields == stream[e]
         published == handle_message_responses(responses, e, fields, encoded)
     IN IF group
          THEN /\ responses' = published
               /\ expire' = IF fields.requestId THEN expire \cup {e} ELSE expire
               /\ pel' = xack(pel, e)
               /\ acked' = IF pel[e] # NotPending THEN acked \cup {e} ELSE acked
               /\ group' = group
               /\ fallback' = fallback
        ELSE IF fields.requestId
          THEN /\ responses' = publish_without_ack(
                                 responses, e, response(e, fields, encoded),
                                 applied)
               /\ expire' = expire \cup {e}
               /\ group' = TRUE
               /\ fallback' = fallback \cup {e}
               /\ UNCHANGED <<pel, acked>>
        ELSE UNCHANGED <<responses, expire, pel, acked, group, fallback>>
  /\ work' = [work EXCEPT ![c] = Tail(@)]
  /\ UNCHANGED <<outsideResponder, stream, last_delivered, consumer,
                 orphaned, resets, redis_errors>>

NextReset ==
  \/ \E f \in Fields : AddRequest(f)
  \/ ServerReset
  \/ \E c \in Consumers : ReadStream(c)
  \/ \E c \in Consumers : ClaimStream(c)
  \/ \E c \in Consumers : RecreateGroup(c)
  \/ \E c \in Consumers, encoded \in BOOLEAN, applied \in BOOLEAN :
       HandleEntry(c, encoded, applied)
  \/ \E e \in Entries : Idle(e)

SpecReset == Init /\ [][NextReset]_vars

\* The consumers' loops keep iterating.
FairReset ==
  /\ SpecReset
  /\ \A c \in Consumers : WF_vars(ReadStream(c))
  /\ \A c \in Consumers : WF_vars(RecreateGroup(c))
  /\ \A c \in Consumers :
       WF_vars(\E encoded \in BOOLEAN, applied \in BOOLEAN :
                 HandleEntry(c, encoded, applied))

\* ------------------------------------- the responder on a Redis that fails
\* A call of the loop outside _handle_message raises: the read, the claim,
\* or the re-creation of the group after one of them answered NOGROUP.
LoopCallRaises(c, call, error) ==
  /\ consumer[c] = "live"
  /\ work[c] = <<>>
  /\ call \in RedisCalls \ {"pipeline"}
  /\ call \in {"recreate_on_read", "recreate_on_claim"} => ~group
  /\ redis_errors < MaxRedisErrors
  /\ redis_errors' = redis_errors + 1
  /\ consumer' = IF loop_goes_on(call, error) THEN consumer
                 ELSE [consumer EXCEPT ![c] = "ended"]
  /\ UNCHANGED <<outsideResponder, stream, last_delivered, pel, responses,
                 acked, work, orphaned, group, resets, expire, fallback>>

\* The pipeline of _handle_message raises: the handler catches it and tries
\* to publish an error payload, which succeeds or raises as well.
HandleRaises(c, retry_ok) ==
  /\ consumer[c] = "live"
  /\ work[c] # <<>>
  /\ stream[Head(work[c])].requestId
  /\ group
  /\ redis_errors < MaxRedisErrors
  /\ redis_errors' = redis_errors + 1
  /\ LET e == Head(work[c])
     IN IF retry_ok
          THEN /\ responses' = lpush(responses, e, response(e, stream[e], FALSE))
               /\ expire' = expire \cup {e}
               /\ pel' = xack(pel, e)
               /\ acked' = IF pel[e] # NotPending THEN acked \cup {e} ELSE acked
        ELSE UNCHANGED <<responses, expire, pel, acked>>
  /\ work' = [work EXCEPT ![c] = Tail(@)]
  /\ consumer' = IF loop_goes_on("pipeline", "connection") THEN consumer
                 ELSE [consumer EXCEPT ![c] = "ended"]
  /\ UNCHANGED <<outsideResponder, stream, last_delivered, orphaned, group,
                 resets, fallback>>

NextRedis ==
  \/ \E f \in Fields : AddRequest(f)
  \/ ServerReset
  \/ \E c \in Consumers : ReadStream(c)
  \/ \E c \in Consumers : ClaimStream(c)
  \/ \E c \in Consumers : RecreateGroup(c)
  \/ \E c \in Consumers, encoded \in BOOLEAN, applied \in BOOLEAN :
       HandleEntry(c, encoded, applied)
  \/ \E e \in Entries : Idle(e)
  \/ \E c \in Consumers, call \in RedisCalls, error \in RedisErrors :
       LoopCallRaises(c, call, error)
  \/ \E c \in Consumers, retry_ok \in BOOLEAN : HandleRaises(c, retry_ok)

SpecRedis == Init /\ [][NextRedis]_vars

\* ---------------------------------------------- the embedding worker steps
\* The backend queues a track for embedding.
EnqueueVibe(t) ==
  /\ vibe[t].status = "pending"
  /\ t \notin Range(clap_queue)
  /\ held # t
  /\ clap_queue' = Append(clap_queue, t)
  /\ UNCHANGED <<notEmbed, db_up, conn, worker_loop, vibe, held, outages>>

\* The database becomes unreachable, or reachable again.
DbDown ==
  /\ db_up
  /\ outages < MaxOutages
  /\ db_up' = FALSE
  /\ outages' = outages + 1
  /\ UNCHANGED <<notEmbed, conn, worker_loop, clap_queue, vibe, held>>

DbUp ==
  /\ ~db_up
  /\ db_up' = TRUE
  /\ UNCHANGED <<notEmbed, conn, worker_loop, clap_queue, vibe, held, outages>>

\* _process_job, first half: blpop, then _update_track_status(processing).
\* A blpop that raises is caught by the loop's `except Exception`; a
\* get_cursor that cannot reconnect raises psycopg2.Error to the loop.
BeginJob(redis_ok) ==
  /\ worker_loop = "running"
  /\ held = 0
  /\ clap_queue # <<>>
  /\ IF ~redis_ok
       THEN UNCHANGED <<conn, worker_loop, clap_queue, vibe, held>>
     ELSE LET t == Head(clap_queue)
          IN /\ clap_queue' = Tail(clap_queue)
             /\ conn' = get_cursor_conn(conn, db_up)
             /\ IF get_cursor_raises(conn, db_up)
                  THEN /\ worker_loop' = "reconnecting"
                       /\ UNCHANGED <<vibe, held>>
                ELSE /\ vibe' = update_track_status(vibe, t, "processing")
                     /\ held' = t
                     /\ worker_loop' = worker_loop
  /\ UNCHANGED <<notEmbed, db_up, outages>>

\* _process_job, second half: get_audio_embedding (an embedding, None, or an
\* exception), then _store_embedding and the status, or _mark_failed.
FinishJob(model) ==
  /\ worker_loop = "running"
  /\ held # 0
  /\ model \in {"ok", "none", "raises"}
  /\ held' = 0
  /\ IF model = "raises"
       THEN UNCHANGED <<conn, worker_loop, vibe>>
     ELSE /\ conn' = get_cursor_conn(conn, db_up)
          /\ IF get_cursor_raises(conn, db_up)
               THEN /\ worker_loop' = "reconnecting"
                    /\ vibe' = vibe
             ELSE /\ vibe' = IF model = "ok"
                               THEN update_track_status(vibe, held, "completed")
                             ELSE mark_failed(vibe, held)
                  /\ worker_loop' = worker_loop
  /\ UNCHANGED <<notEmbed, db_up, clap_queue, outages>>

\* The loop's `except psycopg2.Error`: self.db.reconnect() and the back-off.
\* What reconnect raises there is raised inside the handler: it leaves the
\* while loop and the finally block ends the worker.
Reconnect ==
  /\ worker_loop = "reconnecting"
  /\ conn' = reconnect_conn(db_up)
  /\ worker_loop' = IF reconnect_raises(db_up) THEN "ended" ELSE "running"
  /\ UNCHANGED <<notEmbed, db_up, clap_queue, vibe, held, outages>>

NextEmbed ==
  \/ \E t \in Tracks : EnqueueVibe(t)
  \/ DbDown
  \/ DbUp
  \/ \E redis_ok \in BOOLEAN : BeginJob(redis_ok)
  \/ \E model \in {"ok", "none", "raises"} : FinishJob(model)
  \/ Reconnect

SpecEmbed == Init /\ [][NextEmbed]_vars

\* ------------------------------------------------ the search strategy steps
\* A search route calls _search_with_mode_fallback for the user, on the
\* user's client or on the public one; the upstream answers draw from o.
Search(u, unauth, o) ==
  /\ LET r == search_with_mode_fallback(auto_tv_fallback_users,
                 ytmusic_instances, oauth_files, u, unauth, o)
     IN /\ auto_tv_fallback_users' = r.F
        /\ ytmusic_instances' = r.I
        /\ searched' = [route |-> "search", user |-> u, unauth |-> unauth,
                        marked |-> u \in auto_tv_fallback_users,
                        first |-> IF r.calls = <<>> THEN "none" ELSE o[1],
                        calls |-> r.calls, result |-> r.result]
  /\ UNCHANGED <<notMode, oauth_files>>

\* A library or browse route: _run_ytmusic_with_auth_retry on its own.
Browse(u, o1, o2) ==
  /\ LET r == run_ytmusic_with_auth_retry(auto_tv_fallback_users,
                 ytmusic_instances, oauth_files, u, "browse", o1, o2)
     IN /\ auto_tv_fallback_users' = r.F
        /\ ytmusic_instances' = r.I
        /\ searched' = [route |-> "browse", user |-> u, unauth |-> FALSE,
                        marked |-> u \in auto_tv_fallback_users,
                        first |-> IF r.calls = <<>> THEN "none" ELSE o1,
                        calls |-> r.calls, result |-> r.result]
  /\ UNCHANGED <<notMode, oauth_files>>

\* POST /auth/restore
AuthRestore(u) ==
  /\ oauth_files' = oauth_files \cup {u}
  /\ ytmusic_instances' = invalidate_ytmusic(ytmusic_instances, u)
  /\ auto_tv_fallback_users' = auto_tv_fallback_users \ {u}
  /\ searched' = AuthRoute("auth_restore", u)
  /\ UNCHANGED notMode

\* POST /auth/clear
AuthClear(u) ==
  /\ ytmusic_instances' = invalidate_ytmusic(ytmusic_instances, u)
  /\ auto_tv_fallback_users' = auto_tv_fallback_users \ {u}
  /\ oauth_files' = oauth_files \ {u}
  /\ searched' = AuthRoute("auth_clear", u)
  /\ UNCHANGED notMode

\* POST /auth/device-code/poll when the user has authorized the device.
DeviceCodePoll(u) ==
  /\ oauth_files' = oauth_files \cup {u}
  /\ ytmusic_instances' = invalidate_ytmusic(ytmusic_instances, u)
  /\ auto_tv_fallback_users' = auto_tv_fallback_users \ {u}
  /\ searched' = AuthRoute("device_code_poll", u)
  /\ UNCHANGED notMode

NextMode ==
  \/ \E u \in Users, o \in [1..4 -> Answers] : Search(u, FALSE, o)
  \/ \E u \in Users, o \in [1..4 -> PublicAnswers] : Search(u, TRUE, o)
  \/ \E u \in Users, o1 \in Answers, o2 \in Answers : Browse(u, o1, o2)
  \/ \E u \in Users : AuthRestore(u)
  \/ \E u \in Users : AuthClear(u)
  \/ \E u \in Users : DeviceCodePoll(u)

SpecMode == Init /\ [][NextMode]_vars

\* --------------------------------------------------- the CLAP model steps
\* The sections under CLAPAnalyzer._lock are single steps: the lock lets one
\* of them run at a time.  What a thread does outside the lock is a step of
\* its own.

\* The wall clock of the service passes.
TickWall ==
  /\ wall < MaxWall
  /\ wall' = wall + 1
  /\ UNCHANGED <<notIdle, model_handle, model_loaded, last_work_time,
                 embedders, idle_monitor>>

\* A worker calls get_audio_embedding for a job, or the responder calls
\* get_text_embedding for a request.
BeginEmbedding(th, kind) ==
  /\ embedders[th].pc = "idle"
  /\ embedders' = [embedders EXCEPT ![th] =
       [pc |-> "ensure", kind |-> kind, encoded_on |-> "none"]]
  /\ UNCHANGED <<notIdle, model_handle, model_loaded, last_work_time, wall,
                 idle_monitor>>

\* ensure_model: the handle is read without the lock; load_model, under the
\* lock, loads the model when it is still None.
EnsureModel(th) ==
  /\ embedders[th].pc = "ensure"
  /\ embedders' = [embedders EXCEPT ![th].pc = "ensured"]
  /\ IF model_handle
       THEN UNCHANGED <<model_handle, model_loaded, last_work_time>>
     ELSE /\ model_handle' = TRUE
          /\ model_loaded' = TRUE
          /\ last_work_time' = wall
  /\ UNCHANGED <<notIdle, wall, idle_monitor>>

\* self.last_work_time = time.time(), after ensure_model has returned.
StampWork(th) ==
  /\ embedders[th].pc = "ensured"
  /\ last_work_time' = wall
  /\ embedders' = [embedders EXCEPT ![th].pc =
       IF embedders[th].kind = "audio" THEN "load_audio" ELSE "encode"]
  /\ UNCHANGED <<notIdle, model_handle, model_loaded, wall, idle_monitor>>

\* get_audio_embedding reads its chunk of the file: the audio, or None, which
\* ends the call before the encode.
LoadAudioChunk(th, ok) ==
  /\ embedders[th].pc = "load_audio"
  /\ embedders' = [embedders EXCEPT ![th] =
       IF ok THEN [@ EXCEPT !.pc = "encode"] ELSE IdleEmbedder]
  /\ UNCHANGED <<notIdle, model_handle, model_loaded, last_work_time, wall,
                 idle_monitor>>

\* with self._lock: the encode on self.model.
Encode(th) ==
  /\ embedders[th].pc = "encode"
  /\ embedders' = [embedders EXCEPT ![th].pc = "encoded",
                                    ![th].encoded_on = encode(model_handle)]
  /\ UNCHANGED <<notIdle, model_handle, model_loaded, last_work_time, wall,
                 idle_monitor>>

\* The call returns to its thread.
ReturnEmbedding(th) ==
  /\ embedders[th].pc = "encoded"
  /\ embedders' = [embedders EXCEPT ![th] = IdleEmbedder]
  /\ UNCHANGED <<notIdle, model_handle, model_loaded, last_work_time, wall,
                 idle_monitor>>

\* The monitor wakes from time.sleep(5), reads _model_loaded and the idle
\* time and takes its branch.
CheckIdle ==
  /\ idle_monitor.pc = "sleep"
  /\ LET idle_seconds == wall - last_work_time
     IN idle_monitor' = [pc |-> idle_branch(model_loaded, idle_seconds),
                         idle_seconds |-> idle_seconds]
  /\ UNCHANGED <<notIdle, model_handle, model_loaded, last_work_time, wall,
                 embedders>>

\* The monitor counts the tracks without an embedding and the queued jobs:
\* nothing is left, or something is, or the check fails.
CountRemaining(all_done) ==
  /\ idle_monitor.pc = "count"
  /\ idle_monitor' = [idle_monitor EXCEPT
       !.pc = IF all_done THEN "unload" ELSE "sleep"]
  /\ UNCHANGED <<notIdle, model_handle, model_loaded, last_work_time, wall,
                 embedders>>

\* analyzer.unload_model(), under the lock.
UnloadModel ==
  /\ idle_monitor.pc = "unload"
  /\ idle_monitor' = [idle_monitor EXCEPT !.pc = "sleep"]
  /\ IF model_handle
       THEN /\ model_handle' = unload_model(model_handle)
            /\ model_loaded' = unload_model(model_handle)
     ELSE UNCHANGED <<model_handle, model_loaded>>
  /\ UNCHANGED <<notIdle, last_work_time, wall, embedders>>

NextIdle ==
  \/ TickWall
  \/ \E th \in Embedders, kind \in {"audio", "text"} : BeginEmbedding(th, kind)
  \/ \E th \in Embedders : EnsureModel(th)
  \/ \E th \in Embedders : StampWork(th)
  \/ \E th \in Embedders, ok \in BOOLEAN : LoadAudioChunk(th, ok)
  \/ \E th \in Embedders : Encode(th)
  \/ \E th \in Embedders : ReturnEmbedding(th)
  \/ CheckIdle
  \/ \E all_done \in BOOLEAN : CountRemaining(all_done)
  \/ UnloadModel

SpecIdle == Init /\ [][NextIdle]_vars

\* ------------------------------------------------ the byte-range proxy steps
\* A GET, with a Range header or without, arrives at a sidecar's proxy route.
BeginRequest(s, q) ==
  /\ request.phase = "idle"
  /\ \E ranged \in BOOLEAN :
       request' = [Idle_request EXCEPT !.phase = "fetch", !.sidecar = s,
                                       !.quality = q, !.ranged = ranged]
  /\ UNCHANGED <<notProxy, stream_cache>>

\* TIDAL _open_upstream_stream, first half of an attempt: on the second
\* attempt the request's cache key is cleared; then _get_stream_url_sync.
TidalFetch ==
  /\ request.phase = "fetch" /\ request.sidecar = "tidal"
  /\ LET key == cache_key("tidal", request.quality)
         C1 == IF request.attempt = 1 THEN clear_stream_cache(stream_cache, key)
               ELSE stream_cache
     IN /\ stream_cache' = get_stream_url_cache(C1, key)
        /\ request' = [request EXCEPT
             !.phase = "send",
             !.source = Append(@, get_stream_url_source(C1, key)),
             !.evicted = IF request.attempt = 1 THEN @ \cup {key} ELSE @]
  /\ UNCHANGED notProxy

\* TIDAL _open_upstream_stream, second half of an attempt: the upstream
\* answers 206, answers 401/403, or the request fails (502).
TidalSend(upstream_status) ==
  /\ request.phase = "send" /\ request.sidecar = "tidal"
  /\ upstream_status \in upstream_answers(request.ranged)
  /\ request' =
       IF upstream_status = "error"
         THEN [request EXCEPT !.phase = "done", !.seen = Append(@, "error"),
                              !.status = "502"]
       ELSE IF refresh_once(request.attempt, upstream_status)
         THEN [request EXCEPT !.phase = "fetch", !.attempt = 1,
                              !.seen = Append(@, upstream_status)]
       ELSE [request EXCEPT !.phase = "done", !.seen = Append(@, upstream_status),
                            !.status = upstream_status, !.streamed = TRUE,
                            !.headers = tidal_response_headers(
                                          upstream_headers(upstream_status))]
  /\ UNCHANGED <<notProxy, stream_cache>>

\* YouTube Music proxy_stream: _get_stream_url_sync.
YtFetch ==
  /\ request.phase = "fetch" /\ request.sidecar = "ytmusic"
  /\ LET key == cache_key("ytmusic", request.quality)
     IN /\ stream_cache' = get_stream_url_cache(stream_cache, key)
        /\ request' = [request EXCEPT
             !.phase = "send",
             !.source = Append(@, get_stream_url_source(stream_cache, key))]
  /\ UNCHANGED notProxy

\* YouTube Music proxy_stream.  Range branch: the upstream's status code is
\* the response's; a failed send is not caught (500).  Without Range: the
\* StreamingResponse is returned with the default status and stream_audio
\* contacts the upstream when the body is iterated; what the upstream
\* answers is the body, an upstream error ends the body.
YtSend(upstream_status) ==
  /\ request.phase = "send" /\ request.sidecar = "ytmusic"
  /\ upstream_status \in upstream_answers(request.ranged)
  /\ request' =
       IF request.ranged
         THEN [request EXCEPT
                 !.phase = "done",
                 !.seen = Append(@, upstream_status),
                 !.status = IF upstream_status = "error" THEN "500"
                            ELSE upstream_status,
                 !.streamed = upstream_status # "error",
                 !.headers = IF upstream_status = "error" THEN {}
                             ELSE yt_range_response_headers(
                                    upstream_headers(upstream_status))]
       ELSE [request EXCEPT
               !.phase = "done",
               !.seen = Append(@, upstream_status),
               !.status = "200",
               !.streamed = TRUE,
               !.headers = yt_response_headers]
  /\ UNCHANGED <<notProxy, stream_cache>>

\* The response has been streamed.
Finish ==
  /\ request.phase = "done"
  /\ request' = Idle_request
  /\ UNCHANGED <<notProxy, stream_cache>>

\* A cache entry's expires_at passes.
Expire(key) ==
  /\ stream_cache[key] # "none"
  /\ stream_cache' = [stream_cache EXCEPT ![key] = "none"]
  /\ UNCHANGED <<notProxy, request>>

UpstreamStatus == {"200", "206", "403", "error"}

NextProxy ==
  \/ \E s \in Sidecars, q \in Qualities : BeginRequest(s, q)
  \/ TidalFetch
  \/ \E st \in UpstreamStatus : TidalSend(st)
  \/ YtFetch
  \/ \E st \in UpstreamStatus : YtSend(st)
  \/ Finish
  \/ \E k \in CacheKeys : Expire(k)

SpecProxy == Init /\ [][NextProxy]_vars

\* ------------------------------------------------ the control channel steps
workerButExecutor == <<Track, track_embeddings, queue, pc, tracks, futures,
                       pool_active, crashes, lastOp>>

\* The control plane publishes a message on the control channel.
Publish(msg) ==
  /\ Len(pubsub) < MaxUnread
  /\ pubsub' = Append(pubsub, msg)
  /\ since_set_workers' = IF msg.command = "set_workers" THEN 0
                          ELSE since_set_workers
  /\ last_requested' = IF msg.command = "set_workers" THEN clamp(msg.count)
                       ELSE last_requested
  /\ UNCHANGED <<notControl, NUM_WORKERS, pending_resize, pending_elapsed,
                 is_paused, running>>

\* One second passes.
Tick ==
  /\ pending_elapsed' = IF pending_resize = 0 THEN pending_elapsed
                        ELSE Elapse(pending_elapsed)
  /\ since_set_workers' = Elapse(since_set_workers)
  /\ UNCHANGED <<notControl, NUM_WORKERS, pending_resize, is_paused, running,
                 pubsub, last_requested>>

\* The head of one iteration of start()'s loop: _check_control_signals reads
\* at most one message, then _apply_pending_resize.
ControlLoop ==
  /\ running
  /\ LET pending == check_pending_resize(pubsub, NUM_WORKERS, pending_resize)
         elapsed == check_pending_elapsed(pubsub, NUM_WORKERS, pending_elapsed)
         due == resize_due(pending, elapsed)
     IN /\ pending_resize' = IF due THEN 0 ELSE pending
        /\ pending_elapsed' = IF due THEN 0 ELSE elapsed
        /\ NUM_WORKERS' = IF due THEN resize_worker_pool(NUM_WORKERS, pending)
                          ELSE NUM_WORKERS
        /\ executor' = IF due /\ pending # NUM_WORKERS THEN "live" ELSE executor
  /\ is_paused' = check_is_paused(pubsub, is_paused)
  /\ running' = check_running(pubsub, running)
  /\ pubsub' = IF pubsub = <<>> THEN pubsub ELSE Tail(pubsub)
  /\ UNCHANGED <<workerButExecutor, outsideWorkerControl, since_set_workers,
                 last_requested>>

NextControl ==
  \/ \E msg \in ControlMessages : Publish(msg)
  \/ Tick
  \/ ControlLoop

SpecControl == Init /\ [][NextControl]_vars

\* The loop keeps iterating while it runs, and time keeps passing.
FairControl ==
  /\ SpecControl
  /\ WF_vars(ControlLoop)
  /\ WF_vars(Tick)

\* ------------------------------------------------ the TIDAL session steps
\* The provider expires an access token it issued.
ExpireToken(t) ==
  /\ token_user[t] # 0
  /\ t \notin expired
  /\ expired' = expired \cup {t}
  /\ invalidated' = 0
  /\ UNCHANGED <<notSession, user_apis, user_auth_state, user_api_locks,
                 tidal_stream_cache, now, next_token, token_user, calls,
                 refresh_calls>>

\* POST /user/auth/restore with an access token the provider accepts, as it
\* is or after the handler refreshed it: the handle and the credentials are
\* installed.  The handler holds no lock and does not yield.
Restore(u, refresh_token) ==
  /\ next_token <= MaxTokens
  /\ user_apis' = [user_apis EXCEPT ![u] = next_token]
  /\ user_auth_state' = [user_auth_state EXCEPT ![u] = refresh_token]
  /\ token_user' = [token_user EXCEPT ![next_token] = u]
  /\ next_token' = next_token + 1
  /\ invalidated' = 0
  /\ UNCHANGED <<notSession, user_api_locks, tidal_stream_cache, now, expired,
                 calls, refresh_calls>>

\* POST /user/auth/clear: _invalidate_user_api.
Clear(u) ==
  /\ LET s == invalidate_user_api([apis |-> user_apis,
                                   auth |-> user_auth_state,
                                   cache |-> tidal_stream_cache], u)
     IN /\ user_apis' = s.apis
        /\ user_auth_state' = s.auth
        /\ tidal_stream_cache' = s.cache
  /\ invalidated' = u
  /\ UNCHANGED <<notSession, user_api_locks, now, expired, next_token,
                 token_user, calls, refresh_calls>>

\* _run_user_api_call starts for a stream request: _get_user_api.
BeginCall(c, r) ==
  /\ calls[c].pc = "idle"
  /\ LET got == get_user_api(user_apis, r.user)
     IN calls' = [calls EXCEPT ![c] =
          IF got.status = "401"
            THEN [@ EXCEPT !.request = r, !.pc = "done", !.status = "401"]
          ELSE [@ EXCEPT !.request = r, !.pc = "run"]]
  /\ invalidated' = 0
  /\ UNCHANGED <<notSession, user_apis, user_auth_state, user_api_locks,
                 tidal_stream_cache, now, expired, next_token, token_user,
                 refresh_calls>>

\* await asyncio.to_thread(func, api): the operation runs, here the stream
\* lookup _get_stream_url_sync.  On its first run a token-expired error
\* leads to _refresh_user_api; every other outcome leaves the call.
RunOp(c, outcome) ==
  /\ calls[c].pc \in {"run", "rerun"}
  /\ outcome \in ProviderOutcomes(user_apis[calls[c].request.user], expired)
  /\ LET res == get_stream_url_sync(tidal_stream_cache, user_apis,
                                    calls[c].request, now, 0, outcome)
         first == calls[c].pc = "run"
     IN /\ tidal_stream_cache' = res.cache
        /\ calls' = [calls EXCEPT ![c] =
             IF first /\ res.status = "error"
                /\ is_token_expired_error(res.error)
               THEN [@ EXCEPT !.pc = "lock", !.runs = @ + 1,
                              !.first_error = res.error]
             ELSE [@ EXCEPT !.pc = "done", !.runs = @ + 1,
                            !.status = res.status,
                            !.first_error = IF first THEN res.error ELSE @]]
  /\ invalidated' = 0
  /\ UNCHANGED <<notSession, user_apis, user_auth_state, user_api_locks, now,
                 expired, next_token, token_user, refresh_calls>>

\* _refresh_user_api enters the user's lock, looks the credentials up and
\* reads the current handle.
Acquire(c) ==
  LET u == calls[c].request.user
  IN /\ calls[c].pc = "lock"
     /\ lock_free(user_api_locks, u)
     /\ IF user_auth_state[u] # "refresh_token"
          THEN /\ calls' = [calls EXCEPT ![c].pc = "done",
                                         ![c].status = "401"]
               /\ UNCHANGED user_api_locks
        ELSE /\ user_api_locks' = [user_api_locks EXCEPT ![u] = c]
             /\ calls' = [calls EXCEPT
                  ![c].pc = IF user_apis[u] # 0 THEN "verify" ELSE "refresh",
                  ![c].current_api = user_apis[u]]
     /\ invalidated' = 0
     /\ UNCHANGED <<notSession, user_apis, user_auth_state,
                    tidal_stream_cache, now, expired, next_token, token_user,
                    refresh_calls>>

\* await current_api.get_session(): the handle read is still good and is
\* returned, or its token has expired, or the check fails otherwise.
Verify(c, outcome) ==
  LET u == calls[c].request.user
  IN /\ calls[c].pc = "verify"
     /\ outcome \in ProviderOutcomes(calls[c].current_api, expired)
     /\ IF outcome = NoError
          THEN /\ calls' = [calls EXCEPT ![c].pc = "rerun", ![c].current_api = 0]
               /\ user_api_locks' = [user_api_locks EXCEPT ![u] = 0]
        ELSE IF is_token_expired_error(outcome)
          THEN /\ calls' = [calls EXCEPT ![c].pc = "refresh", ![c].current_api = 0]
               /\ UNCHANGED user_api_locks
        ELSE /\ calls' = [calls EXCEPT ![c].pc = "done", ![c].current_api = 0,
                                       ![c].status = "error"]
             /\ user_api_locks' = [user_api_locks EXCEPT ![u] = 0]
     /\ invalidated' = 0
     /\ UNCHANGED <<notSession, user_apis, user_auth_state,
                    tidal_stream_cache, now, expired, next_token, token_user,
                    refresh_calls>>

\* AuthAPI().refresh_token and the check of the handle built from its answer:
\* the new handle is installed and the user's cache cleared, or the user is
\* invalidated and the call fails with 401.
Refresh(c, ok) ==
  LET u == calls[c].request.user
  IN /\ calls[c].pc = "refresh"
     /\ ok => next_token <= MaxTokens
     /\ refresh_calls' = [refresh_calls EXCEPT ![u] = @ + 1]
     /\ user_api_locks' = [user_api_locks EXCEPT ![u] = 0]
     /\ IF ok
          THEN /\ user_apis' = [user_apis EXCEPT ![u] = next_token]
               /\ tidal_stream_cache' =
                    clear_user_stream_cache(tidal_stream_cache, u)
               /\ token_user' = [token_user EXCEPT ![next_token] = u]
               /\ next_token' = next_token + 1
               /\ calls' = [calls EXCEPT ![c].pc = "rerun",
                                         ![c].refreshes = @ + 1]
               /\ invalidated' = 0
               /\ UNCHANGED user_auth_state
        ELSE /\ LET s == invalidate_user_api([apis |-> user_apis,
                                              auth |-> user_auth_state,
                                              cache |-> tidal_stream_cache], u)
                IN /\ user_apis' = s.apis
                   /\ user_auth_state' = s.auth
                   /\ tidal_stream_cache' = s.cache
             /\ calls' = [calls EXCEPT ![c].pc = "done", ![c].status = "401",
                                       ![c].refreshes = @ + 1]
             /\ invalidated' = u
             /\ UNCHANGED <<token_user, next_token>>
     /\ UNCHANGED <<notSession, now, expired>>

NextSession ==
  \/ \E t \in Tokens : ExpireToken(t)
  \/ \E u \in Users, refresh_token \in {"refresh_token", "no_refresh_token"} :
       Restore(u, refresh_token)
  \/ \E u \in Users : Clear(u)
  \/ \E c \in Calls, r \in StreamRequests : BeginCall(c, r)
  \/ \E c \in Calls, outcome \in Errors \cup {NoError} : RunOp(c, outcome)
  \/ \E c \in Calls : Acquire(c)
  \/ \E c \in Calls, outcome \in Errors \cup {NoError} : Verify(c, outcome)
  \/ \E c \in Calls, ok \in BOOLEAN : Refresh(c, ok)

SpecSession == Init /\ [][NextSession]_vars

\* ------------------------------------------------- the stream-URL cache steps
\* The two sidecars are separate processes that share nothing: a behaviour
\* follows the cache of one of them.
Follows(sidecar) == returned.sidecar \in {"none", sidecar}

sessionButCache == <<user_auth_state, user_api_locks, expired, next_token,
                     token_user, calls, refresh_calls, invalidated>>

\* Time passes.
TickCache ==
  /\ now < MaxNow
  /\ now' = now + 1
  /\ UNCHANGED <<notSession, user_apis, sessionButCache, tidal_stream_cache>>

\* tidal _get_stream_url_sync for a request whose user has a live handle.
TidalLookup(r, took, outcome) ==
  /\ Follows("tidal")
  /\ now + took <= MaxNow
  /\ outcome \in ProviderOutcomes(user_apis[r.user], expired)
  /\ LET res == get_stream_url_sync(tidal_stream_cache, user_apis, r, now,
                                    took, outcome)
         hit == tidal_cache_hit(tidal_stream_cache, tidal_cache_key(r), now)
         elapsed == IF hit \/ res.status = "401" THEN 0 ELSE took
     IN /\ tidal_stream_cache' = res.cache
        /\ now' = now + elapsed
        /\ returned' = [sidecar |-> "tidal",
                        request |-> [r EXCEPT !.quality =
                                       normalize_stream_quality(@)],
                        status |-> res.status, hit |-> hit,
                        stale |-> tidal_cache_key(r) \in DOMAIN tidal_stream_cache
                                  /\ ~hit,
                        value |-> IF res.status = "ok" THEN res.value
                                  ELSE NoEntry,
                        at |-> now + elapsed]
  /\ UNCHANGED <<outsideStreams, extractVars,
                 user_apis, sessionButCache, ytmusic_stream_cache>>

\* ytmusic _get_stream_url_sync, one call at a time.
YtLookup(r, min_gap, took, ok) ==
  /\ Follows("ytmusic")
  /\ LET res == yt_get_stream_url_sync(ytmusic_stream_cache,
                                       last_extract_time, r, now, min_gap,
                                       took, ok)
     IN /\ res.finished <= MaxNow
        /\ ytmusic_stream_cache' = res.cache
        /\ last_extract_time' = res.last
        /\ now' = res.finished
        /\ returned' = [sidecar |-> "ytmusic",
                        request |-> [r EXCEPT !.quality = format_quality(@)],
                        status |-> res.status, hit |-> res.hit,
                        stale |-> yt_cache_key(r) \in DOMAIN ytmusic_stream_cache
                                  /\ ~res.hit,
                        value |-> IF res.status = "ok" THEN res.value
                                  ELSE NoEntry,
                        at |-> res.finished]
  /\ UNCHANGED <<outsideStreams, user_apis,
                 sessionButCache, tidal_stream_cache, threads>>

\* The periodic _clean_stream_cache of the YouTube Music sidecar.
YtClean ==
  /\ Follows("ytmusic")
  /\ ytmusic_stream_cache' = yt_clean_stream_cache(ytmusic_stream_cache, now)
  /\ UNCHANGED <<notCache, returned>>

NextCache ==
  \/ \E u \in Users : Restore(u, "refresh_token")
  \/ TickCache
  \/ \E r \in StreamRequests, took \in {0, 1}, outcome \in Errors \cup {NoError} :
       TidalLookup(r, took, outcome)
  \/ \E r \in StreamRequests, min_gap \in Jitter, took \in {0, 1},
        ok \in BOOLEAN :
       YtLookup(r, min_gap, took, ok)
  \/ YtClean

SpecCache == Init /\ [][NextCache]_vars

\* ------------------------------------------------------ the extractor steps
\* GET /stream and GET /proxy hand _get_stream_url_sync to a worker thread
\* (asyncio.to_thread); the threads run it side by side.
sessionButNow == <<user_apis, user_auth_state, user_api_locks,
                   tidal_stream_cache, expired, next_token, token_user, calls,
                   refresh_calls, invalidated>>

\* Time passes.
TickExtract ==
  /\ now < MaxNow
  /\ now' = now + 1
  /\ UNCHANGED <<outsideStreams, cacheVars,
                 extractVars, sessionButNow>>

\* A thread starts the lookup: the cache read, which ends the lookup on a hit.
BeginLookup(th, r) ==
  /\ threads[th].pc = "idle"
  /\ threads' = [threads EXCEPT ![th] =
       IF yt_cache_hit(ytmusic_stream_cache, yt_cache_key(r), now)
         THEN IdleThread
       ELSE [IdleThread EXCEPT !.request = r, !.pc = "pace"]]
  /\ UNCHANGED <<notExtract, last_extract_time>>

\* The thread reads the clock and _last_extract_time, draws min_gap and
\* decides how long to sleep.
Pace(th, min_gap) ==
  /\ threads[th].pc = "pace"
  /\ threads' = [threads EXCEPT
       ![th].pc = "sleep",
       ![th].min_gap = min_gap,
       ![th].wake = now + sleep_time(now, last_extract_time, min_gap)]
  /\ UNCHANGED <<notExtract, last_extract_time>>

\* time.sleep(sleep_time) is over (at once when there was nothing to sleep):
\* _last_extract_time = time.time(), and the extraction starts.
Stamp(th) ==
  /\ threads[th].pc = "sleep"
  /\ now >= threads[th].wake
  /\ last_extract_time' = now
  /\ threads' = [threads EXCEPT ![th].pc = "extract", ![th].min_gap = 0,
                                ![th].wake = 0]
  /\ UNCHANGED notExtract

\* ydl.extract_info returns or raises; a result is stored in the cache.
Extracted(th, ok) ==
  /\ threads[th].pc = "extract"
  /\ threads' = [threads EXCEPT ![th] = IdleThread]
  /\ ytmusic_stream_cache' =
       IF ok THEN With(ytmusic_stream_cache, yt_cache_key(threads[th].request),
                       yt_result(threads[th].request, now))
       ELSE ytmusic_stream_cache
  /\ UNCHANGED <<outsideStreams, sessionVars,
                 returned, last_extract_time>>

NextExtract ==
  \/ TickExtract
  \/ \E th \in Threads, r \in StreamRequests : BeginLookup(th, r)
  \/ \E th \in Threads, min_gap \in Jitter : Pace(th, min_gap)
  \/ \E th \in Threads : Stamp(th)
  \/ \E th \in Threads, ok \in BOOLEAN : Extracted(th, ok)

SpecExtract == Init /\ [][NextExtract]_vars

\* ------------------------------------------------------ the batch search steps
\* asyncio.gather starts _run_one for a query: a cached query is answered at
\* once; another one enters the semaphore if a slot is free, or waits for one.
RunOne(t, q) ==
  /\ tasks[t].pc = "idle"
  /\ IF get_cached_search(search_cache, q)
       THEN UNCHANGED <<tasks, batch_semaphore>>
     ELSE IF semaphore_free(batch_semaphore)
       THEN /\ tasks' = [tasks EXCEPT ![t] = [pc |-> "delay", query |-> q]]
            /\ batch_semaphore' = batch_semaphore - 1
     ELSE /\ tasks' = [tasks EXCEPT ![t] = [pc |-> "wait", query |-> q]]
          /\ UNCHANGED batch_semaphore
  /\ UNCHANGED <<notSearch, search_cache, released_by>>

\* A waiting task is woken by a release and takes the slot.
Enter(t) ==
  /\ tasks[t].pc = "wait"
  /\ semaphore_free(batch_semaphore)
  /\ tasks' = [tasks EXCEPT ![t].pc = "delay"]
  /\ batch_semaphore' = batch_semaphore - 1
  /\ UNCHANGED <<notSearch, search_cache, released_by>>

\* await asyncio.sleep(delay) is over: the search goes out in a thread.
SendSearch(t) ==
  /\ tasks[t].pc = "delay"
  /\ tasks' = [tasks EXCEPT ![t].pc = "request"]
  /\ UNCHANGED <<notSearch, batch_semaphore, search_cache, released_by>>

\* The search returns or raises; the async with block releases the slot.
SearchDone(t, outcome) ==
  /\ tasks[t].pc = "request"
  /\ tasks' = [tasks EXCEPT ![t] = IdleTask]
  /\ batch_semaphore' = batch_semaphore + 1
  /\ search_cache' = set_cached_search(search_cache, tasks[t].query, outcome)
  /\ released_by' = released_by \cup {outcome}
  /\ UNCHANGED notSearch

\* A cached search reaches its expiry time.
ExpireSearch(q) ==
  /\ q \in search_cache
  /\ search_cache' = search_cache \ {q}
  /\ UNCHANGED <<notSearch, batch_semaphore, tasks, released_by>>

NextSearch ==
  \/ \E t \in Tasks, q \in Queries : RunOne(t, q)
  \/ \E t \in Tasks : Enter(t)
  \/ \E t \in Tasks : SendSearch(t)
  \/ \E t \in Tasks, outcome \in SearchOutcomes : SearchDone(t, outcome)
  \/ \E q \in Queries : ExpireSearch(q)

SpecSearch == Init /\ [][NextSearch]_vars

\* ------------------------------------------------- the analyzer environment
\* monkeypatch.setenv: the variable of the test, not set before, gets a value.
SetEnv(value) ==
  /\ TEST_ENV_KEY \notin DOMAIN environ
  /\ environ' = With(environ, TEST_ENV_KEY, value)
  /\ env_call' = NoEnvCall
  /\ UNCHANGED notEnv

\* monkeypatch.delenv(key, raising=False) of the test variable, of the
\* thread keys or of the TensorFlow keys.
DelEnv(keys) ==
  /\ environ' = Without(environ, keys)
  /\ env_call' = NoEnvCall
  /\ UNCHANGED notEnv

\* A call of get_int_env.
GetIntEnv(name, default) ==
  /\ env_call' = [NoEnvCall EXCEPT !.op = "get_int_env", !.name = name,
                                   !.default = default,
                                   !.result = get_int_env(environ, name, default)]
  /\ UNCHANGED <<notEnv, environ>>

\* A call of configure_thread_env.
ConfigureThreadEnv(n, tf) ==
  /\ environ' = configure_thread_env(environ, n, tf)
  /\ env_call' = [NoEnvCall EXCEPT !.op = "configure_thread_env",
                                   !.threads = n, !.tf = tf,
                                   !.before = environ]
  /\ UNCHANGED notEnv

NextEnv ==
  \/ \E value \in StringsUpTo(MaxLen) : SetEnv(value)
  \/ \E keys \in {{TEST_ENV_KEY}, THREAD_ENV_KEYS, TF_ENV_KEYS} : DelEnv(keys)
  \/ \E name \in {TEST_ENV_KEY, "OMP_NUM_THREADS"}, default \in Defaults :
       GetIntEnv(name, default)
  \/ \E n \in ThreadCounts, tf \in BOOLEAN : ConfigureThreadEnv(n, tf)

SpecEnv == Init /\ [][NextEnv]_vars

\* ---------------------------------------------------- the analysis job steps
\* _process_tracks_parallel takes a job whose row passes the status guard,
\* marks the row processing and submits the job to the pool.
SubmitJob(f) ==
  /\ job.pc \in {"idle", "saved"}
  /\ valid_ids(OneRow(job_row), <<1>>) = {1}
  /\ job_row' = mark_processing(OneRow(job_row), <<1>>)[1]
  /\ job' = [IdleJob EXCEPT !.pc = "submitted", !.file = f]
  /\ UNCHANGED <<notJob, failure>>

\* The pool child runs _analyze_track_in_process.
AnalyzeJob ==
  /\ job.pc = "submitted"
  /\ job' = [job EXCEPT !.pc = "returned",
                        !.features = analyze_track_in_process(job.file)]
  /\ UNCHANGED <<notJob, job_row, failure>>

\* as_completed yields the future: a result with '_error' goes to
\* _save_failed, any other result to _save_results.
SaveJob ==
  /\ job.pc = "returned"
  /\ IF job.features.error # NoMessage
       THEN /\ job_row' = save_failed_row(job_row, job.features.error,
                                          job.features.permanent)
            /\ failure' = upsert_failure(failure, job.features.error)
     ELSE /\ job_row' = save_results_row(job_row)
          /\ failure' = resolve_failure(failure)
  /\ job' = [job EXCEPT !.pc = "saved", !.before = job_row,
                        !.failure_before = failure]
  /\ UNCHANGED notJob

\* _retry_failed_tracks: a failed row under budget goes back to pending.
RetryJob ==
  /\ job.pc \in {"idle", "saved"}
  /\ job_row.status = "failed"
  /\ LET row == retry_failed_tracks(OneRow(job_row), {})[1]
     IN job_row' = IF row.status = "pending"
                     THEN [row EXCEPT !.error = NoMessage] ELSE row
  /\ job' = IdleJob
  /\ UNCHANGED <<notJob, failure>>

\* The failures view of the application marks the failure row resolved or
\* skipped (the record of the last save is dropped with it).
MarkFailure(column) ==
  /\ failure.present
  /\ job.pc \in {"idle", "saved"}
  /\ ~failure[column]
  /\ failure' = [failure EXCEPT ![column] = TRUE]
  /\ job' = IdleJob
  /\ UNCHANGED <<notJob, job_row>>

NextJob ==
  \/ \E f \in Files : SubmitJob(f)
  \/ AnalyzeJob
  \/ SaveJob
  \/ RetryJob
  \/ \E column \in {"resolved", "skipped"} : MarkFailure(column)

SpecJob == Init /\ [][NextJob]_vars

\* ------------------------------------------- the worker's loop, step by step
workerInLoop == <<Track, track_embeddings, queue, tracks, futures, crashes>>

outsideLoop == <<textVars, proxyVars, sessionVars, cacheVars, extractVars,
                 searchVars, envVars, jobVars,
                 redisVars,
                 embedVars,
                 modeVars,
                 idleVars>>

controlInLoop == <<NUM_WORKERS, pending_resize, pending_elapsed, is_paused,
                   running, pubsub, since_set_workers, last_requested>>

\* The head of an iteration of start()'s loop: `while self.running`, the
\* heartbeat, _check_control_signals and _apply_pending_resize.
CheckSignals ==
  /\ pc = "loop"
  /\ running
  /\ LET pending == check_pending_resize(pubsub, NUM_WORKERS, pending_resize)
         elapsed == check_pending_elapsed(pubsub, NUM_WORKERS, pending_elapsed)
         due == resize_due(pending, elapsed)
     IN /\ pending_resize' = IF due THEN 0 ELSE pending
        /\ pending_elapsed' = IF due THEN 0 ELSE elapsed
        /\ NUM_WORKERS' = IF due THEN resize_worker_pool(NUM_WORKERS, pending)
                          ELSE NUM_WORKERS
        /\ executor' = IF due /\ pending # NUM_WORKERS THEN "live" ELSE executor
  /\ is_paused' = check_is_paused(pubsub, is_paused)
  /\ running' = check_running(pubsub, running)
  /\ pubsub' = IF pubsub = <<>> THEN pubsub ELSE Tail(pubsub)
  /\ pc' = "checked"
  /\ lastOp' = "check_signals"
  /\ UNCHANGED <<workerInLoop, pool_active, outsideWorkerControl,
                 since_set_workers, last_requested>>

\* `if self.is_paused: time.sleep(1); continue`
SleepPaused ==
  /\ pc = "checked"
  /\ is_paused
  /\ pc' = "loop"
  /\ lastOp' = "sleep_paused"
  /\ UNCHANGED <<workerInLoop, poolVars, controlVars, outsideWorkerControl>>

\* process_batch_parallel with work in the queue: BRPOP and LPOPs, then
\* _process_tracks_parallel up to the submit.  When the UPDATE that marks the
\* rows fails, the batch is dropped.  When the pool is broken, submit raises
\* BrokenProcessPool: start() recreates the pool, runs
\* _cleanup_stale_processing and goes on with the next iteration.
PopJobs(db_ok) ==
  /\ pc = "checked"
  /\ ~is_paused
  /\ queue # <<>>
  /\ db_ok \/ faults < MaxFaults
  /\ LET first == queue[Len(queue)]
         rest == SubSeq(queue, 1, Len(queue) - 1)
         k == Min(BATCH_SIZE - 1, Len(rest))
         queued_jobs == <<first>> \o SubSeq(rest, 1, k)
         kept == SelectIn(queued_jobs, valid_ids(Track, queued_jobs))
         pool == ensure_pool(executor, pool_active)
         marked == mark_processing(Track, queued_jobs)
     IN /\ queue' = SubSeq(rest, k + 1, Len(rest))
        /\ pool_active' = TRUE
        /\ IF ~db_ok
             THEN /\ Track' = Track
                  /\ tracks' = <<>> /\ futures' = <<>>
                  /\ executor' = pool
                  /\ pc' = "loop"
                  /\ faults' = faults + 1
                  /\ stranded' = stranded \cup {t \in Range(queued_jobs) :
                                        Track[t].status = "processing"}
                  /\ lastOp' = "mark_failed"
           ELSE IF pool = "broken" /\ kept # <<>>
             THEN /\ Track' = cleanup_stale_processing(marked, track_embeddings)
                  /\ tracks' = <<>> /\ futures' = <<>>
                  /\ executor' = "live"
                  /\ pc' = "loop"
                  /\ UNCHANGED <<faults, stranded>>
                  /\ lastOp' = "submit_broken"
           ELSE /\ Track' = marked
                /\ tracks' = kept
                /\ futures' = [i \in 1..Len(kept) |-> "running"]
                /\ executor' = pool
                /\ pc' = "collect"
                /\ faults' = faults
                /\ stranded' = stranded \ Range(kept)
                /\ lastOp' = "pop_jobs"
  /\ UNCHANGED <<track_embeddings, crashes, controlVars, outsideLoop>>


\* The idle branch of the loop, as IdleMaintenance, reached from the head of
\* the iteration.
IdleTimeout(periodic) ==
  /\ pc = "checked"
  /\ ~is_paused
  /\ queue = <<>>
  /\ LET found_work == reconciliation_select(Track) # <<>>
         T1 == reconciliation_mark(Track)
     IN /\ queue' = reconciliation_push(Track, queue)
        /\ Track' = IF periodic THEN maintenance(T1, track_embeddings) ELSE T1
        /\ executor' = IF found_work THEN executor
                       ELSE shutdown_pool_executor(executor, pool_active)
        /\ pool_active' = IF found_work THEN pool_active
                          ELSE shutdown_pool_active(executor, pool_active)
  /\ pc' = "loop"
  /\ lastOp' = IF periodic THEN "idle_maintenance" ELSE "idle_reconcile"
  /\ UNCHANGED <<track_embeddings, batchVars, crashes, controlVars,
                 outsideWorkerControl>>

\* `while self.running` is false: the loop ends and the finally block shuts
\* the pool down.
EndLoop ==
  /\ pc = "loop"
  /\ ~running
  /\ executor' = shutdown_pool_executor(executor, pool_active)
  /\ pool_active' = shutdown_pool_active(executor, pool_active)
  /\ pc' = "stopped"
  /\ lastOp' = "end_loop"
  /\ UNCHANGED <<workerInLoop, controlVars, outsideWorkerControl>>

\* A child of the idle pool dies: the executor is broken from here on.
PoolBreaks ==
  /\ pc \in {"loop", "checked"}
  /\ executor = "live"
  /\ faults < MaxFaults
  /\ executor' = "broken"
  /\ faults' = faults + 1
  /\ lastOp' = "pool_breaks"
  /\ UNCHANGED <<workerInLoop, pc, pool_active, stranded, controlVars,
                 outsideLoop>>

\* as_completed yields a finished future and the database is unreachable:
\* _save_results or _save_failed rolls back and returns, the track counts as
\* finalized all the same.
CollectFails(i) ==
  /\ pc = "collect"
  /\ i \in DOMAIN futures
  /\ futures[i] = "done"
  /\ faults < MaxFaults
  /\ futures' = [futures EXCEPT ![i] = "collected"]
  /\ faults' = faults + 1
  /\ stranded' = stranded \cup {t \in {tracks[i]} :
                                  Track[t].status = "processing"}
  /\ lastOp' = "save_unreachable"
  /\ UNCHANGED <<dbVars, queue, pc, tracks, poolVars, crashes, controlVars,
                 outsideLoop>>

\* A pool child dies and the re-queue meets an outage.  With the database
\* unreachable the UPDATE rolls back and nothing is pushed, and the
\* _cleanup_stale_processing of the crash handling fails in the same outage;
\* with the queue unreachable the rows are reset and the push is lost.
PoolCrashFails(unreachable) ==
  /\ pc = "collect"
  /\ \E i \in DOMAIN futures : futures[i] = "running"
  /\ faults < MaxFaults
  /\ LET remaining == SelectIn(tracks, Tracks \ finalized_track_ids)
         T1 == requeue_reset(Track, remaining)
     IN /\ Track' = IF unreachable = "database" THEN Track
                    ELSE cleanup_stale_processing(T1, track_embeddings)
        /\ stranded' = IF unreachable = "database"
                  THEN stranded \cup {t \in Range(remaining) :
                                   Track[t].status = "processing"}
                  ELSE stranded
  /\ faults' = faults + 1
  /\ tracks' = <<>> /\ futures' = <<>>
  /\ executor' = "live" /\ pool_active' = TRUE
  /\ pc' = "loop"
  /\ lastOp' = "requeue_unreachable"
  /\ UNCHANGED <<track_embeddings, queue, crashes, controlVars, outsideLoop>>

\* The loop with its control channel, database and queue reachable.
NextPause ==
  \/ \E msg \in PauseMessages : Publish(msg)
  \/ Start
  \/ CheckSignals
  \/ SleepPaused
  \/ PopJobs(TRUE)
  \/ \E i \in 1..BATCH_SIZE : FutureDone(i)
  \/ \E i \in 1..BATCH_SIZE, o \in {"ok", "error", "permanent"} : Collect(i, o)
  \/ \E p \in BOOLEAN : BatchDone(p)
  \/ \E p \in BOOLEAN : IdleTimeout(p)
  \/ EndLoop

SpecPause == Init /\ [][NextPause]_vars

\* The loop with a database and a queue that may be unreachable for one
\* operation and a pool that may break.
NextFaults ==
  \/ \E t \in Tracks : Age(t)
  \/ Start
  \/ CheckSignals
  \/ \E db_ok \in BOOLEAN : PopJobs(db_ok)
  \/ \E i \in 1..BATCH_SIZE : FutureDone(i)
  \/ \E i \in 1..BATCH_SIZE, o \in {"ok", "error", "permanent"} : Collect(i, o)
  \/ \E i \in 1..BATCH_SIZE : CollectFails(i)
  \/ \E p \in BOOLEAN : BatchDone(p)
  \/ \E p \in BOOLEAN : BatchTimeout(p)
  \/ PoolCrash
  \/ \E u \in {"database", "queue"} : PoolCrashFails(u)
  \/ \E p \in BOOLEAN : IdleTimeout(p)
  \/ PoolBreaks

SpecFaults == Init /\ [][NextFaults]_vars

\* The loop keeps iterating: each of its steps is taken when it stays possible.
FairPause ==
  /\ SpecPause
  /\ WF_vars(CheckSignals)
  /\ WF_vars(SleepPaused)
  /\ WF_vars(PopJobs(TRUE))
  /\ WF_vars(EndLoop)

\* ================================================================ claims
\* The batch entries whose outcome was not saved when the crash is detected.
Unfinalized == SelectIn(tracks, Tracks \ finalized_track_ids)

\* What the crash handling does to the batch: every entry not finalized is
\* pending again with startedAt cleared and is pushed back, and the pool is
\* live again.
CrashRequeues ==
  /\ \A t \in Range(Unfinalized) :
       Track'[t].status = "pending" /\ Track'[t].startedAt = "null"
  /\ queue' = queue \o Unfinalized
  /\ executor' = "live" /\ pool_active'

FairSpec ==
  /\ Spec
  /\ WF_vars(Start)
  /\ WF_vars(PopBatch)
  /\ WF_vars(\E i \in 1..BATCH_SIZE : FutureDone(i))
  /\ WF_vars(\E i \in 1..BATCH_SIZE, o \in {"ok", "error", "permanent"} : Collect(i, o))
  /\ WF_vars(\E p \in BOOLEAN : BatchDone(p))
  /\ WF_vars(\E t \in Tracks : Age(t))
  /\ WF_vars(IdleMaintenance(TRUE))

\* C2, as claimed: while maintenance ticks keep running (and the pool stops
\* crashing), a track that has an embedding is eventually completed.
C2_Original ==
  <>[](lastOp # "pool_crash") =>
    \A t \in Tracks : (t \in track_embeddings) ~> (Track[t].status = "completed")

\* The operations that end after _cleanup_stale_processing has run.
CleanupOps == {"start", "idle_maintenance", "batch_maintenance",
               "timeout_maintenance", "pool_crash"}

\* C3, as claimed: after a maintenance tick no row is still in processing
\* with a start older than the staleness window (it is pending again when
\* under budget, terminally failed when at budget).
C3_Original ==
  lastOp \in CleanupOps =>
    \A t \in Tracks : ~(Track[t].status = "processing" /\ IsStale(Track[t]))

\* C4, as claimed: every track's retryCount stays within 0..maxRetries.
C4_Original ==
  \A t \in Tracks : Track[t].retryCount \in 0..MAX_RETRIES

\* A row that is failed at budget and has no embedding.
Terminal(t) ==
  /\ Track[t].status = "failed"
  /\ Track[t].retryCount = MAX_RETRIES
  /\ t \notin track_embeddings

Count(q, t) == Cardinality({i \in DOMAIN q : q[i] = t})

\* C5, as claimed: once a row without an embedding is failed at budget, no
\* operation of the worker changes its status or pushes a job for it.
C5_Original ==
  [][\A t \in Tracks :
       Terminal(t) => /\ Track'[t].status = "failed"
                      /\ Count(queue', t) <= Count(queue, t)]_vars

\* C6, as claimed: no two analyses of one track are in flight at once.
C6_Original ==
  \A i, j \in DOMAIN futures :
    (i # j /\ futures[i] = "running" /\ futures[j] = "running")
      => tracks[i] # tracks[j]

\* ------------------------------------------------------ text-embed claims
NoConsumerDied == \A c \in Consumers : consumer[c] = "live"

WellFormed(e) == e \in DOMAIN stream /\ stream[e].requestId /\ stream[e].text

HasRequestId(e) == e \in DOMAIN stream /\ stream[e].requestId

\* C7, as claimed: for every entry with the required fields the response key
\* gets exactly one payload, with success = true and the entry's requestId;
\* while no consumer has died there is never a second payload.
C7_Original ==
  NoConsumerDied =>
    \A e \in Entries :
      WellFormed(e) =>
        /\ Len(responses[e]) <= 1
        /\ e \in acked => Len(responses[e]) = 1
        /\ \A i \in DOMAIN responses[e] :
             responses[e][i].success /\ responses[e][i].requestId = e

\* C8, as claimed: an entry whose reader died before the ack is eventually
\* claimed by a live consumer, answered on its response key and acknowledged.
C8_Original ==
  \A e \in Entries :
    (e \in orphaned) ~> (e \in acked /\ responses[e] # <<>>)

\* C8, amended: an entry whose reader died before the ack is eventually
\* acknowledged by a live consumer, which first writes a response when the
\* entry carries a requestId (an entry without one is acknowledged and
\* dropped).
C8_OrphanRecovered ==
  \A e \in Entries :
    (e \in orphaned) ~> (e \in acked /\ (HasRequestId(e) => responses[e] # <<>>))

\* An entry whose reader died has been answered and acknowledged.
C8_Witness ==
  \E e \in orphaned : e \in acked /\ HasRequestId(e) /\ responses[e] # <<>>

\* C9, as claimed: every acknowledged entry has a response payload on its
\* response list.
C9_Original ==
  \A e \in acked : responses[e] # <<>>

\* C9, amended: every acknowledged entry that carries a requestId has a
\* response payload on its response list (an entry without requestId is
\* acknowledged with no response).
C9_ResponseBeforeAck ==
  \A e \in acked : HasRequestId(e) => responses[e] # <<>>

\* An entry with a requestId is acknowledged and its response is queued.
C9_Witness ==
  \E e \in acked : HasRequestId(e) /\ Len(responses[e]) = 1 /\ pel[e] = NotPending

\* ----------------------------------------------------------- proxy claims
\* The request is answered, its first URL came from the cache and the
\* upstream rejected it with 401/403.
CachedUrlRejected ==
  /\ request.phase = "done"
  /\ request.source[1] = "cache"
  /\ request.seen[1] = "403"

\* The one refresh-and-retry: the request's own key evicted, a second URL
\* extracted and sent, and nothing after that.
RefreshedOnce ==
  /\ request.evicted = {cache_key(request.sidecar, request.quality)}
  /\ request.source = <<"cache", "extract">>
  /\ Len(request.seen) = 2

\* C10, as claimed: a byte-range proxy request whose cached URL is rejected
\* with 401/403 is answered only after exactly one refresh-and-retry.
C10_Original ==
  CachedUrlRejected => RefreshedOnce

\* C11, as claimed: a TIDAL proxy request whose upstream answers 401/403 on
\* the first attempt and again on the retry with the fresh URL is answered
\* with 502, not with the upstream's 401/403.
C11_Original ==
  (/\ request.phase = "done"
   /\ request.sidecar = "tidal"
   /\ request.seen = <<"403", "403">>)
    => request.status = "502"

\* --------------------------------------------------- control channel claims
\* C12, as claimed: once set_workers n is the last control message and the
\* channel stays quiet, the effective worker count becomes clamp(n, 1, 8).
C12_Original ==
  \A n \in 1..8 :
    <>[](running /\ pubsub = <<>> /\ last_requested = n) => <>[](NUM_WORKERS = n)

\* C13, as claimed: a resize is applied only when no set_workers message
\* arrived during the last resizeDebounce, and it goes to the last count
\* requested.
C13_Original ==
  [][NUM_WORKERS' # NUM_WORKERS =>
       /\ ~(since_set_workers < RESIZE_DEBOUNCE_SECONDS)
       /\ NUM_WORKERS' = last_requested]_vars

\* C14: a call of _run_user_api_call runs its operation at most twice and
\* refreshes the token at most once; it is on the refresh path, or has run
\* twice, only after its first run raised a token-expired error; any other
\* error of the first run ends the call at once with that error; a second
\* run ends the call whatever it raises.
C14_RefreshAndRetryOnce ==
  \A c \in Calls :
    /\ calls[c].runs <= 2
    /\ calls[c].refreshes <= 1
    /\ (\/ calls[c].pc \in {"lock", "verify", "refresh", "rerun"}
        \/ calls[c].runs = 2
        \/ calls[c].refreshes = 1)
         => calls[c].first_error \in TokenExpiredSignals
    /\ calls[c].first_error \in Errors \ TokenExpiredSignals
         => /\ calls[c].pc = "done"
            /\ calls[c].status = "error"
            /\ calls[c].runs = 1
            /\ calls[c].refreshes = 0
    /\ calls[c].runs = 2 => calls[c].pc = "done"

\* A call whose first run hit the expired token, which refreshed, and whose
\* second run raised an error that ended it.
C14_Witness ==
  \E c \in Calls :
    /\ calls[c].pc = "done"
    /\ calls[c].runs = 2
    /\ calls[c].refreshes = 1
    /\ calls[c].status = "error"

\* The calls of a user inside its lock.
InLock(u) ==
  {c \in Calls : calls[c].request.user = u
                 /\ calls[c].pc \in {"verify", "refresh"}}

\* The access tokens of a user that have expired.
Expiries(u) == {t \in expired : token_user[t] = u}

\* C15: at most one call of a user is inside _refresh_user_api's lock, and
\* the refresh_token calls made for a user never outnumber the access tokens
\* of that user that expired: a call entering after a refresh reuses the
\* handle installed.
C15_OneRefreshPerExpiry ==
  \A u \in Users :
    /\ Cardinality(InLock(u)) <= 1
    /\ refresh_calls[u] <= Cardinality(Expiries(u))

\* Two calls of one user both hit the expired token; one refreshed, the
\* other went through the lock without refreshing, and both were served.
C15_Witness ==
  \E c, d \in Calls :
    /\ c # d
    /\ calls[c].request.user = calls[d].request.user
    /\ calls[c].pc = "done" /\ calls[d].pc = "done"
    /\ calls[c].first_error \in TokenExpiredSignals
    /\ calls[d].first_error \in TokenExpiredSignals
    /\ calls[c].refreshes = 1 /\ calls[d].refreshes = 0
    /\ calls[c].status = "ok" /\ calls[d].status = "ok"
    /\ calls[d].runs = 2
    /\ refresh_calls[calls[c].request.user] = 1

\* The cache entries of a user.
EntriesOf(C, u) == {k \in DOMAIN C : k[1] = u}

\* C16: a step that invalidates a user leaves that user without handle,
\* without credentials and without cache entry, so that _get_user_api fails
\* with 401, and leaves every other user's handle, credentials and cache
\* entries as they were.
C16_InvalidateFrame ==
  [][\A u \in Users :
       invalidated' = u =>
         /\ user_apis'[u] = 0
         /\ user_auth_state'[u] = "none"
         /\ EntriesOf(tidal_stream_cache', u) = {}
         /\ get_user_api(user_apis', u).status = "401"
         /\ \A v \in Users \ {u} :
              /\ user_apis'[v] = user_apis[v]
              /\ user_auth_state'[v] = user_auth_state[v]
              /\ EntriesOf(tidal_stream_cache', v)
                   = EntriesOf(tidal_stream_cache, v)
              /\ \A k \in EntriesOf(tidal_stream_cache, v) :
                   tidal_stream_cache'[k] = tidal_stream_cache[k]]_vars

\* A user that had been served a stream URL was invalidated while another
\* user holds a handle, credentials and a cache entry.
C16_Witness ==
  \E u \in Users, v \in Users :
    /\ u # v
    /\ invalidated = u
    /\ \E c \in Calls : /\ calls[c].request.user = u
                        /\ calls[c].status = "ok"
    /\ user_apis[v] # 0
    /\ user_auth_state[v] # "none"
    /\ EntriesOf(tidal_stream_cache, v) # {}

\* C17, as claimed: in both sidecars a stream lookup that succeeds gives its
\* caller an entry extracted for the user, the resource and the quality
\* requested.
C17_Original ==
  returned.status = "ok" =>
    /\ returned.value.user = returned.request.user
    /\ returned.value.resource = returned.request.resource
    /\ returned.value.quality = returned.request.quality

\* The time to live of a sidecar's cache.
Ttl(sidecar) ==
  IF sidecar = "tidal" THEN STREAM_CACHE_TTL ELSE YT_STREAM_CACHE_TTL

\* C18: the entry a stream lookup gives its caller has not reached its
\* expiry time when it is given; an entry served from the cache is one whose
\* expiry time is still ahead, and an entry obtained on a miss expires one
\* time-to-live after it was obtained.
C18_NeverExpired ==
  returned.status = "ok" =>
    /\ returned.at < returned.value.expires_at
    /\ ~returned.hit =>
         returned.value.expires_at = returned.at + Ttl(returned.sidecar)

\* A lookup of the YouTube Music sidecar found an entry that had reached its
\* expiry time and gave its caller a fresh one.
C18_Witness ==
  /\ returned.sidecar = "ytmusic"
  /\ returned.stale
  /\ returned.status = "ok"

\* C19, as claimed: when a thread starts an extraction, at least the gap it
\* drew has elapsed since the extraction before it was stamped, and no other
\* thread is extracting.
C19_Original ==
  [][\A th \in Threads :
       (threads[th].pc = "sleep" /\ threads'[th].pc = "extract") =>
         /\ now - last_extract_time >= threads[th].min_gap
         /\ \A other \in Threads \ {th} : threads[other].pc # "extract"]_vars

\* The tasks that hold a slot, and those whose search is out.
Holding == {t \in Tasks : tasks[t].pc \in {"delay", "request"}}
InFlight == {t \in Tasks : tasks[t].pc = "request"}

\* C20: at most BATCH_CONCURRENCY batch searches are out at any time; the free
\* slots and the slots held by tasks that have not finished add up to
\* BATCH_CONCURRENCY, so a query that finished or failed has given its slot
\* back, and a query enters only by taking a free slot.
C20_BoundedInFlight ==
  /\ Cardinality(InFlight) <= BATCH_CONCURRENCY
  /\ batch_semaphore + Cardinality(Holding) = BATCH_CONCURRENCY
  /\ batch_semaphore >= 0

\* All slots are out on searches, a further query waits, and slots have been
\* given back both by searches that returned and by searches that failed.
C20_Witness ==
  /\ Cardinality(InFlight) = BATCH_CONCURRENCY
  /\ \E t \in Tasks : tasks[t].pc = "wait"
  /\ released_by = SearchOutcomes

\* ------------------------------------------------------------------------
\* C29  get_int_env(name, default) returns the default when the variable is
\* not set, returns n when the variable is set to the decimal string of the
\* integer n, and raises ValueError when the variable is set to a string with
\* no digit in it or with a character that no integer is written with.
Written(n) == [ok |-> TRUE, value |-> n]

not_a_number(s) ==
  \/ \A i \in DOMAIN s : ~is_digit(s[i])
  \/ \E i \in DOMAIN s : ~is_digit(s[i]) /\ s[i] \notin {"+", "-", "_", " "}

C30_ConfigureFrame ==
  env_call.op = "configure_thread_env" =>
    /\ \A k \in THREAD_ENV_KEYS :
         k \in DOMAIN environ /\ int_of_str(environ[k]) = Written(env_call.threads)
    /\ env_call.tf =>
         /\ TF_ENV_KEYS \subseteq DOMAIN environ
         /\ environ["TF_CPP_MIN_LOG_LEVEL"] = <<"2">>
         /\ int_of_str(environ["TF_NUM_INTRAOP_THREADS"]) = Written(env_call.threads)
         /\ environ["TF_NUM_INTEROP_THREADS"] = <<"1">>
    /\ ~env_call.tf =>
         \A k \in TF_ENV_KEYS :
           /\ k \in DOMAIN environ <=> k \in DOMAIN env_call.before
           /\ k \in DOMAIN environ => environ[k] = env_call.before[k]

\* A call without configure_tensorflow set the thread variables to "12" in an
\* environment that has no TensorFlow variable, and left them absent.
C30_Witness ==
  /\ env_call.op = "configure_thread_env"
  /\ ~env_call.tf
  /\ env_call.threads = 12
  /\ environ["OMP_NUM_THREADS"] = <<"1", "2">>
  /\ TF_ENV_KEYS \cap DOMAIN environ = {}

\* ------------------------------------------------------------------------
\* The response is a byte stream proxied from the upstream.
Proxied == request.phase = "done" /\ request.streamed

\* No proxied byte stream declares a Content-Length; each one carries
\* Accept-Ranges, and a Content-Range exactly when the upstream sent one.
ProxiedHeaders ==
  Proxied =>
    /\ "content-length" \notin request.headers
    /\ "accept-ranges" \in request.headers
    /\ "content-range" \in upstream_headers(request.seen[Len(request.seen)])
         <=> "content-range" \in request.headers

\* C24, as claimed: no proxied byte-stream response declares a
\* Content-Length, with a Range or without, and the upstream's status code,
\* its Content-Range when it sent one, and Accept-Ranges: bytes are
\* forwarded.
C24_Original ==
  Proxied =>
    /\ "content-length" \notin request.headers
    /\ "accept-ranges" \in request.headers
    /\ ("content-range" \in upstream_headers(request.seen[Len(request.seen)])
          => "content-range" \in request.headers)
    /\ request.seen[Len(request.seen)] # "error"
         => request.status = request.seen[Len(request.seen)]

\* ------------------------------------------------------------------------
\* The file of the job has a permanent error: it is over the size limit, it
\* cannot be loaded (unsupported format, or out of memory while loading), or
\* its analysis runs out of memory.
Readable(f) == f.exists /\ ~f.oversized

Valid(f) == f.duration >= 500 /\ f.finite /\ 100 * f.silent <= 80 * NumFrames

PermanentError(f) ==
  \/ f.exists /\ f.oversized
  \/ Readable(f) /\ f.load # "audio"
  \/ Readable(f) /\ f.load = "audio" /\ Valid(f) /\ f.analysis = "MemoryError"

\* C27, as claimed: a job with a permanent error (oversized file, out of
\* memory while loading or analysing, a format that cannot be loaded) is
\* saved as failed with retryCount = MAX_RETRIES, never as completed and
\* never as a recoverable failure.
C27_Original ==
  (job.pc = "saved" /\ PermanentError(job.file)) =>
    /\ job_row.status = "failed"
    /\ job_row.retryCount = MAX_RETRIES

\* The part of C27 the code keeps: an oversized file is terminally failed.
OversizedIsTerminal ==
  (job.pc = "saved" /\ job.file.exists /\ job.file.oversized) =>
    /\ job_row.status = "failed"
    /\ job_row.retryCount = MAX_RETRIES

\* ------------------------------------------------------------------------
\* The audio of the job's file is rejected by the validation.
Rejected(f) == Readable(f) /\ f.load = "audio" /\ ~Valid(f)

\* C28: a job whose file is missing, or whose audio the validation rejects
\* (too short, non-finite samples, more than 80% silence), is saved as
\* failed with the message of the rejection and retryCount + 1; the track's
\* failure row exists, with retryCount 1 if it is new and one more than
\* before if it is not, and is neither resolved nor skipped.  A 2-second file
\* on a fresh track gives 'Audio too short: 2.0s (minimum 5s)' and
\* retryCount 1.
C28_RecoverableFailure ==
  (job.pc = "saved" /\ (~job.file.exists \/ Rejected(job.file))) =>
    /\ job_row.status = "failed"
    /\ job_row.retryCount = job.before.retryCount + 1
    /\ job_row.error # NoMessage
    /\ Rejected(job.file) =>
         job_row.error[1] =
           IF job.file.duration < 500 THEN "Audio too short: "
           ELSE IF ~job.file.finite
             THEN "Audio contains NaN or Inf values (corrupted)"
           ELSE "Audio is "
    /\ failure.present
    /\ failure.errorMessage = job_row.error
    /\ failure.retryCount =
         IF job.failure_before.present THEN job.failure_before.retryCount + 1
         ELSE 1
    /\ ~failure.resolved /\ ~failure.skipped
    /\ (Rejected(job.file) /\ job.file.duration = 200
          /\ job.before.retryCount = 0) =>
         /\ job_row.error = <<"Audio too short: ", "2", ".", "0", "s (minimum 5s)">>
         /\ job_row.retryCount = 1

\* A 2-second file fails a track whose earlier failure had been marked
\* resolved: the failure row counts 2 and is unresolved again.
C28_Witness ==
  /\ job.pc = "saved"
  /\ Rejected(job.file) /\ job.file.duration = 200
  /\ job.failure_before.resolved
  /\ failure.retryCount = 2 /\ ~failure.resolved
  /\ job_row.error = <<"Audio too short: ", "2", ".", "0", "s (minimum 5s)">>

\* ------------------------------------------------------------------------
\* C23, as claimed: between the worker's operations the executor handle is
\* non-null exactly when pool_active is set, also after a resize applied
\* while the pool is shut down.
C23_Original ==
  executor # "none" <=> pool_active

\* ------------------------------------------------------------------------
\* C22, as claimed: a job the worker popped is not lost; once the pool stops
\* crashing, the track of every job taken into a batch reaches completed or
\* failed, whether the batch ran to its end or the worker died under it.
C22_Original ==
  <>[](lastOp # "pool_crash") =>
    \A t \in Tracks :
      (t \in Range(tracks)) ~> (Track[t].status \in {"completed", "failed"})

\* The step takes jobs from the analysis queue or hands a batch to the pool.
Popped == Len(queue') < Len(queue) \/ (pc # "collect" /\ pc' = "collect")

\* The message the next _check_control_signals reads.
NextMessage(command) == pubsub # <<>> /\ Head(pubsub).command = command

\* The loop is between two batches.
BetweenBatches == pc \in {"loop", "checked"}

\* C25: while the feature worker is paused no step pops a job or dispatches a
\* batch; a paused worker that reads resume with jobs queued goes on to take
\* a batch; and a paused worker that reads stop clears its running flag and
\* leaves the loop.
C25_PauseResumeStop ==
  /\ [][is_paused => ~Popped]_vars
  /\ [][(is_paused /\ pc = "loop" /\ pc' = "checked" /\ NextMessage("stop"))
          => ~running']_vars
  /\ (is_paused /\ running /\ BetweenBatches /\ NextMessage("resume")
        /\ queue # <<>>) ~> (pc = "collect")
  /\ (is_paused /\ running /\ BetweenBatches /\ NextMessage("stop"))
       ~> (pc = "stopped")

\* The loop has ended on a stop read while paused, with jobs left in the queue.
C25_Witness == pc = "stopped" /\ is_paused /\ ~running /\ queue # <<>>

\* The step is a pop of the iteration whose head has just run, with the
\* database reachable.
PopsAfterHead ==
  /\ pc = "checked"
  /\ lastOp = "check_signals"
  /\ Len(queue') < Len(queue)
  /\ faults' = faults

\* C26, as claimed: an iteration that begins with a broken pool finds it out
\* by its probe and recreates the pool before the batch is submitted, so the
\* batch it pops is dispatched to a live pool.
C26_Original ==
  [][(PopsAfterHead /\ executor = "broken")
       => (pc' = "collect" /\ executor' = "live")]_vars

\* The step is an operation of the worker that met an unreachable database
\* or queue.
FaultStep == faults' > faults /\ lastOp' # "pool_breaks"

\* The step resets the track from processing to pending.
StaleReset(t) ==
  Track[t].status = "processing" /\ Track'[t].status = "pending"

\* C21, as claimed: an operation that meets an unreachable database or queue
\* leaves the retryCount of the tracks it handles as it is, and a track that
\* such an operation left in processing is not charged a retry when it is
\* reset to pending later.
C21_Original ==
  [][\A t \in Tracks :
       /\ (FaultStep /\ (tracks = <<>> \/ t \in Range(tracks)))
            => Track'[t].retryCount = Track[t].retryCount
       /\ (t \in stranded /\ StaleReset(t))
            => Track'[t].retryCount = Track[t].retryCount]_vars

\* C36, as claimed: once the feature worker has read stop (its running flag
\* is cleared) no step pops a job or dispatches a batch, and the loop that
\* ends leaves no pool behind.
C36_Original ==
  [][/\ ~running => ~Popped
     /\ pc' = "stopped" => (executor' = "none" /\ ~pool_active')]_vars

\* The step is the timeout handling of the batch in flight, without the
\* maintenance of a 50th batch after it.
TimesOut == pc = "collect" /\ lastOp' = "batch_timeout"

\* C32, as claimed: when the batch times out, the track of every future that
\* has not finished is failed at the retry budget, and the track of every
\* future whose outcome was saved keeps the row that was saved.
C32_Original ==
  [][TimesOut =>
       \A i \in DOMAIN futures :
         /\ futures[i] = "running" =>
              /\ Track'[tracks[i]].status = "failed"
              /\ Track'[tracks[i]].retryCount = MAX_RETRIES
         /\ futures[i] = "collected" => Track'[tracks[i]] = Track[tracks[i]]]_vars

\* The step ran _run_db_reconciliation: at startup or in the idle branch.
Reconciles == lastOp' \in {"start", "idle_reconcile", "idle_maintenance"}

\* The step flips the track from pending to processing.
Claimed(t) == Track[t].status = "pending" /\ Track'[t].status = "processing"

\* C33, as claimed: every row that reconciliation flips to processing is in
\* the analysis queue after the step, and while the loop keeps iterating no
\* row stays pending for ever.
C33_Original ==
  /\ [][\A t \in Tracks : (Reconciles /\ Claimed(t)) => t \in Range(queue')]_vars
  /\ \A t \in Tracks :
       (Track[t].status = "pending") ~> (Track[t].status # "pending")

\* The step ends _process_tracks_parallel for the batch in flight: its
\* futures are all collected, it timed out, or the pool crashed.
BatchHandled == pc = "collect" /\ pc' = "loop"

\* C40, as claimed: when _process_tracks_parallel is through with a batch, no
\* track of the batch is in processing.
C40_Original ==
  [][BatchHandled =>
       \A t \in Range(tracks) : Track'[t].status # "processing"]_vars

\* Consumer c's step finishes an entry with a requestId while the group is
\* missing: its pipeline fails with NOGROUP.
HandlesWithoutGroup(c) ==
  /\ ~group
  /\ work[c] # <<>>
  /\ work'[c] = Tail(work[c])
  /\ stream[Head(work[c])].requestId

\* An entry added after the last reset that asks for a response.
AddedAfterResets(e) ==
  /\ resets = MaxResets
  /\ last_delivered < e /\ e <= Len(stream)
  /\ stream[e].requestId

\* C31: a responder whose pipeline fails because the group is gone creates
\* the group again and publishes the response on the response key with its
\* TTL, acknowledging nothing; and requests added after the reset are read
\* through the new group and answered.
C31_ResetPublishes ==
  /\ [][\A c \in Consumers :
          HandlesWithoutGroup(c) =>
            LET e == Head(work[c])
            IN /\ group'
               /\ responses'[e] # <<>>
               /\ Head(responses'[e]).requestId = e
               /\ e \in expire'
               /\ acked' = acked /\ pel' = pel]_vars
  /\ \A e \in Entries : AddedAfterResets(e) ~> (responses[e] # <<>>)

\* The fallback pipeline has answered an entry read before the reset, and an
\* entry added after the reset was read through the new group and answered.
C31_Witness ==
  /\ group
  /\ \E e \in fallback : responses[e] # <<>> /\ e \in expire /\ e \notin acked
  /\ \E e \in Entries \ fallback : e \in acked /\ responses[e] # <<>>

\* C38, as claimed: whatever a Redis call of the responder raises, the
\* handler's loop goes on.
C38_Original ==
  [][\A c \in Consumers : consumer'[c] # "ended"]_vars

\* C34, as claimed: whatever the database, the queue or the model raises,
\* the embedding worker's loop does not end.
C34_Original ==
  [][worker_loop' # "ended"]_vars

\* ------------------------------------------------- the search strategy
\* The step is a search on the user's own client whose native call got the
\* invalid-argument answer while the user was not marked.
NativeRejected ==
  /\ searched'.route = "search"
  /\ ~searched'.unauth
  /\ ~searched'.marked
  /\ searched'.first = "invalid_argument"

\* The upstream calls of the last route made on the TV context.
FallbackCalls(rec) ==
  Cardinality({i \in 1..Len(rec.calls) : rec.calls[i].context = "tv"})

\* The step takes the mark from user u.
Unmarks(u) ==
  u \in auto_tv_fallback_users /\ u \notin auto_tv_fallback_users'

\* The step is a search of a marked user.
MarkedSearch == searched'.route = "search" /\ searched'.marked

\* Every call of a marked user's search is read by the TV parser: the search
\* resolved to the fallback strategy.
ResolvesToFallback ==
  \A i \in 1..Len(searched'.calls) : searched'.calls[i].parser = "tv"

C37_Original ==
  \A u \in Users : user_apis[u] # 0 => user_auth_state[u] # "none"

\* ------------------------------------------------- the CLAP model at rest
\* C39 as stated: every encode runs on a loaded model, also when the idle
\* monitor unloads concurrently.
C39_Original ==
  \A th \in Embedders : embedders[th].encoded_on # "None"

====
